---- MODULE Spec2Model ----
(***************************************************************************)
(* Model of the urban-planning assistant (backend/app/rag.py, cache.py,    *)
(* llm.py, backend/main.py, src/ingestion/index_documents.py,              *)
(* src/ingestion/pdf_reader.py, src/chatbot/utils.py).                     *)
(*                                                                         *)
(* Strings are sequences of one-token strings, so that formatting,         *)
(* splitting, stripping and substring tests are computed, not assumed.     *)
(* Each subsystem has its own specification over the shared variables:     *)
(*   SpecRag    RAGSystem over a documents directory and a persist dir     *)
(*   SpecContext  RAGSystem.get_context_for_question over indexed files    *)
(*   SpecChunk  chunk_text on bounded texts, sizes and overlaps            *)
(*   SpecExtract  extract_context on bounded Chroma results                *)
(*   SpecPdf    read_pdf on bounded PDFs                                   *)
(*   SpecCache  CacheManager over a Redis server with expiring keys        *)
(*   SpecKey    CacheManager.generate_key on pairs of inputs                *)
(*   SpecLlm    LocalLLM: loading, question analysis, prompt rendering      *)
(*   SpecApi    the API process: startup and its two background tasks,     *)
(*              POST /api/query, GET /health and DELETE /api/cache over     *)
(*              Redis                                                      *)
(*   SpecRefresh  the API process: startup, its indexing task, edits of     *)
(*              the documents and POST /api/index/refresh                  *)
(***************************************************************************)
EXTENDS Integers, Sequences, FiniteSets, TLC

VARIABLES
    \* ---- the documents directory and the persist directory (on disk)
    fs,              \* file path -> bytes of the file, or Absent
    edits,           \* number of edits of the documents directory so far
    indexFile,       \* indexed_files.txt: NoFile, or the set of its lines
    chroma,          \* the persisted vector store: the set of stored chunks
    \* ---- the RAGSystem object
    vectorstore,     \* None or "Chroma"
    retriever,       \* None or "Retriever"
    indexed_files,   \* the set of fingerprints (strings)
    indexCalled,     \* index_documents was called on this object
    \* ---- what the last RAGSystem call did
    ragCall,         \* record describing the last call and its outcome
    \* ---- history of the indexing, kept to state the properties
    lastIndexed,     \* path -> bytes at its last completed indexing, or Absent
    unchangedIndexed, \* paths indexed by a completed call and not edited since
    \* ---- src/ingestion/index_documents.py: chunk_text
    chunkIn,         \* the arguments [text, size, overlap]
    chunkOut,        \* the outcome and the chunks yielded
    \* ---- src/chatbot/utils.py: extract_context
    extractIn,       \* the results argument
    extractOut,      \* the outcome and the string returned
    \* ---- src/ingestion/pdf_reader.py: read_pdf
    pdfIn,           \* the PDF: its pages' text layer and their OCR text
    pdfOut,          \* the outcome, the string returned, whether OCR ran
    \* ---- Redis and the CacheManager object (backend/app/cache.py)
    redisUp,         \* the Redis server answers
    redis,           \* key -> stored string with its expiry, or NoEntry
    clock,           \* seconds since the start
    ticks,           \* number of clock advances so far
    enabled,         \* CacheManager.enabled
    cacheCall,       \* the last CacheManager call, its arguments and result
    lastSet,         \* key -> the value and expiry of the set that holds
    \* ---- CacheManager.generate_key applied to two inputs
    keyIn,           \* the two (query, context) arguments
    keyOut,          \* the two content strings and keys
    \* ---- the LocalLLM object (backend/app/llm.py)
    model,           \* LocalLLM.model is set
    llm,             \* LocalLLM.llm (the LangChain wrapper) is set
    llmCall,         \* the last LocalLLM call, its arguments and outcome
    \* ---- backend/main.py: the globals of the API process
    cache,           \* None or "CacheManager"
    mock_api,        \* None or "MockUrbanismAPI"
    llm_manager,     \* None or "LocalLLM"
    rag_system,      \* None or "RAGSystem"
    initialization_status, \* the five readiness flags
    started,         \* startup_event has run initialize_services
    pending,         \* the background tasks still to run
    served,          \* number of /api/query requests handled so far
    mockData,        \* what MockUrbanismAPI reads: zoning data, regulation
    apiCall          \* the last /api/query, /health or /api/index/refresh
                     \* request, its response and the calls it made

ragVars == <<fs, edits, indexFile, chroma, vectorstore, retriever,
             indexed_files, indexCalled, ragCall, lastIndexed,
             unchangedIndexed>>

toolVars == <<extractIn, extractOut, pdfIn, pdfOut>>

chunkVars == <<chunkIn, chunkOut, toolVars>>

cacheVars == <<redisUp, redis, clock, ticks, enabled, cacheCall, lastSet>>

keyVars == <<keyIn, keyOut>>

llmVars == <<model, llm, llmCall>>

apiVars == <<cache, mock_api, llm_manager, rag_system, initialization_status,
             started, pending, served, mockData, apiCall>>

vars == <<ragVars, chunkVars, cacheVars, keyVars, llmVars, apiVars>>

None == "None"
\* A file that does not exist (no byte string of the model is this one)
Absent == <<"#absent">>
\* indexed_files.txt before it is first written
NoFile == [exists |-> FALSE, lines |-> {}]
\* What reading a file yields when reading raises / the suffix is unknown
ReadError == <<"#error">>
Unsupported == <<"#unsupported">>

----------------------------------------------------------------------------
(* Generic string and sequence helpers                                     *)

RECURSIVE Concat(_)
\* "".join(parts) for a sequence of strings
Concat(parts) ==
    IF parts = <<>> THEN <<>> ELSE Head(parts) \o Concat(Tail(parts))

RECURSIVE Join(_, _)
\* sep.join(parts)
Join(parts, sep) ==
    IF parts = <<>> THEN <<>>
    ELSE IF Len(parts) = 1 THEN parts[1]
    ELSE parts[1] \o sep \o Join(Tail(parts), sep)

Whitespace == {" ", "\n", "\t"}

RECURSIVE LStrip(_)
LStrip(s) ==
    IF s # <<>> /\ Head(s) \in Whitespace THEN LStrip(Tail(s)) ELSE s

RECURSIVE RStrip(_)
RStrip(s) ==
    IF s # <<>> /\ s[Len(s)] \in Whitespace
    THEN RStrip(SubSeq(s, 1, Len(s) - 1)) ELSE s

\* str.strip()
Strip(s) == RStrip(LStrip(s))

\* Position of the first line break of s, or 0
FirstBreak(s) ==
    IF \E i \in 1..Len(s) : s[i] = "\n"
    THEN CHOOSE i \in 1..Len(s) : s[i] = "\n" /\ \A j \in 1..(i - 1) : s[j] # "\n"
    ELSE 0

RECURSIVE SplitLines(_)
\* The lines a text file holding s, written with a final line break, is
\* read back as (each without its terminator).
SplitLines(s) ==
    IF FirstBreak(s) = 0 THEN {s}
    ELSE {SubSeq(s, 1, FirstBreak(s) - 1)}
         \cup SplitLines(SubSeq(s, FirstBreak(s) + 1, Len(s)))

\* s contains sub as a contiguous substring (Python's `sub in s`)
Contains(s, sub) ==
    \E i \in 0..(Len(s) - Len(sub)) : SubSeq(s, i + 1, i + Len(sub)) = sub

----------------------------------------------------------------------------
(* The documents directory                                                 *)

\* Bound on the number of edits of the documents directory
MaxEdits == 2

\* backend/app/rag.py: documents_path = "documents"
DocumentsPath == <<"documents">>

\* The sub-directories index_documents walks
Subdirs == {"plu", "zonage", "reglements"}

\* File paths of the model, as token strings: documents/<dir>/<name><suffix>.
\* One name holds a line break (a legal POSIX file name), one file has an
\* unsupported suffix, one lies outside the walked sub-directories.
PathTxt  == DocumentsPath \o <<"/", "plu", "/", "doc", ".txt">>
PathMd   == DocumentsPath \o <<"/", "zonage", "/", "a", "\n", "b", ".md">>
PathPdf  == DocumentsPath \o <<"/", "reglements", "/", "reglement_", "ub", ".pdf">>
PathJson == DocumentsPath \o <<"/", "plu", "/", "data", ".json">>
PathOut  == DocumentsPath \o <<"/", "autres", "/", "x", ".txt">>
EditPaths == {PathTxt, PathMd, PathPdf, PathJson, PathOut}

\* api_mock.py: the sample files MockUrbanismAPI writes into an empty
\* sub-directory
PathSampleZonage ==
    DocumentsPath \o <<"/", "zonage", "/", "montpellier", ".json">>
PathSampleReglement ==
    DocumentsPath \o <<"/", "reglements", "/", "reglement_", "ub", ".txt">>
PathSamplePlu ==
    DocumentsPath \o <<"/", "plu", "/", "montpellier", "_metadata", ".json">>
SamplePaths == {PathSampleZonage, PathSampleReglement, PathSamplePlu}

Paths == EditPaths \cup SamplePaths

\* file_path.suffix, file_path.parent.name, file_path.name, file_path.stem
Suffix(p) == p[Len(p)]
ParentName(p) == p[3]
FileName(p) == SubSeq(p, 5, Len(p))
Stem(p) == SubSeq(p, 5, Len(p) - 1)

\* Bytes of a file, abstracted: "w" and "v" are two different words, " " is
\* white space, "X" is a byte sequence that is not valid UTF-8 (in a PDF: a
\* page without a text layer).
Bytes == {"w", "v", " ", "X"}
Contents == {<<>>, <<"w">>, <<"v">>, <<" ">>, <<"X">>}

ByteCode(b) ==
    CASE b = "w" -> 1 [] b = "v" -> 2 [] b = " " -> 3 [] b = "X" -> 4
      [] b = "a" -> 5 [] b = ":" -> 6 [] b = "N" -> 7 [] b = "None" -> 8
      [] b = "plu" -> 9 [] b = "Plu" -> 10 [] b = "HAUT" -> 11
      [] b = "haut" -> 12 [] b = "eur" -> 13 [] b = "zon" -> 14
      [] b = "e" -> 15 [] b = "age" -> 16 [] b = "emprise" -> 17
      [] b = "?" -> 18 [] OTHER -> 19

RECURSIVE DigestNumber(_)
\* hashlib.md5 as an injective digest of the bounded byte strings
DigestNumber(bytes) ==
    IF bytes = <<>> THEN 0
    ELSE 20 * DigestNumber(SubSeq(bytes, 1, Len(bytes) - 1))
         + ByteCode(bytes[Len(bytes)])

HexDigit == <<"0", "1", "2", "3", "4", "5", "6", "7", "8", "9",
              "a", "b", "c", "d", "e", "f">>

RECURSIVE HexDigest(_)
\* .hexdigest(): the digest as a string of hexadecimal digits
HexDigest(n) ==
    IF n < 16 THEN <<HexDigit[n + 1]>>
    ELSE HexDigest(n \div 16) \o <<HexDigit[(n % 16) + 1]>>

\* RAGSystem._get_file_hash
get_file_hash(bytes) == HexDigest(DigestNumber(bytes))

\* f"{file_path}:{self._get_file_hash(file_path)}"
FileHash(p, bytes) == p \o <<":">> \o get_file_hash(bytes)

----------------------------------------------------------------------------
(* RAGSystem                                                               *)

\* Lines of indexed_files.txt after _save_indexed_files wrote `files`
SavedLines(files) == UNION {SplitLines(f) : f \in files}

\* RAGSystem._save_indexed_files: one fingerprint per line
save_indexed_files(files) == [exists |-> TRUE, lines |-> SavedLines(files)]

\* RAGSystem._load_indexed_files: set(line.strip() for line in f)
load_indexed_files(file, current) ==
    IF ~file.exists THEN current ELSE {Strip(l) : l \in file.lines}

\* with open(..., encoding="utf-8"): f.read() raises on invalid bytes
Utf8Ok(bytes) == \A i \in 1..Len(bytes) : bytes[i] # "X"

\* pdfplumber: page.extract_text() or "", over the pages
PdfPlumberText(bytes) == SelectSeq(bytes, LAMBDA b : b # "X")

\* PyPDF2: page.extract_text(), over the pages
PyPdf2Text(bytes) == SelectSeq(bytes, LAMBDA b : b # "X")

\* RecursiveCharacterTextSplitter.split_text for a text shorter than
\* chunk_size: the stripped text as one chunk, nothing for blank text
split_text(text) ==
    IF Strip(text) = <<>> THEN <<>> ELSE <<Strip(text)>>

Upper(t) == IF t = "ub" THEN "UB" ELSE t

\* metadata["zone"]: file_path.stem.replace("reglement_", "").upper()
ZoneOf(p) ==
    IF \E i \in 1..Len(FileName(p)) : FileName(p)[i] = "reglement_"
    THEN [i \in 1..Len(SelectSeq(Stem(p), LAMBDA t : t # "reglement_")) |->
             Upper(SelectSeq(Stem(p), LAMBDA t : t # "reglement_")[i])]
    ELSE <<>>

\* The text load_document reads from the file: "error" when reading raises
DocumentText(p, bytes) ==
    IF Suffix(p) = ".pdf"
    THEN IF Strip(PdfPlumberText(bytes)) # <<>>
         THEN PdfPlumberText(bytes) ELSE PyPdf2Text(bytes)
    ELSE IF Suffix(p) \in {".txt", ".md"}
    THEN IF Utf8Ok(bytes) THEN bytes ELSE ReadError
    ELSE Unsupported

\* RAGSystem.load_document: the chunks of a file as a set of documents
load_document(p, bytes) ==
    LET text == DocumentText(p, bytes) IN
    IF text \in {ReadError, Unsupported} THEN {}
    ELSE {[page_content |-> split_text(text)[i],
           source |-> p,
           type |-> ParentName(p),
           zone |-> ZoneOf(p),
           chunk_index |-> i - 1] : i \in 1..Len(split_text(text))}

NoCall == [op |-> "none", force |-> FALSE, first |-> FALSE,
           outcome |-> "none", loaded |-> {}, added |-> {}, result |-> <<>>,
           commune |-> <<>>, retrieved |-> <<>>, context |-> <<>>,
           known |-> {}]

\* rag.py: search_kwargs={"k": 5}, and search(query, k=5)
RetrieverK == 5
DefaultK == 5

Min(a, b) == IF a < b THEN a ELSE b

\* The lists a similarity search over `store` may return: its n nearest
\* chunks, in an order that depends on the query and the embeddings
Rankings(store, n) ==
    LET m == Min(n, Cardinality(store)) IN
    {r \in [1..m -> store] : \A i, j \in 1..m : i # j => r[i] # r[j]}

\* The files dir_path.glob("*") yields in the walked sub-directories
WalkedFiles == {p \in Paths : fs[p] # Absent /\ ParentName(p) \in Subdirs}

\* RAGSystem.__init__: a new object on the same persist directory
NewRAGSystem ==
    /\ vectorstore' = None
    /\ retriever' = None
    /\ indexed_files' = load_indexed_files(indexFile, {})
    /\ indexCalled' = FALSE
    /\ ragCall' = [NoCall EXCEPT !.op = "__init__", !.outcome = "ok"]
    /\ UNCHANGED <<fs, edits, indexFile, chroma, lastIndexed, unchangedIndexed>>

\* RAGSystem.initialize: embeddings, Chroma and retriever, or it raises
Initialize(ok) ==
    /\ IF ok
       THEN /\ vectorstore' = "Chroma"
            /\ retriever' = "Retriever"
       ELSE UNCHANGED <<vectorstore, retriever>>
    /\ ragCall' = [NoCall EXCEPT !.op = "initialize",
                                 !.outcome = IF ok THEN "ok" ELSE "error"]
    /\ UNCHANGED <<fs, edits, indexFile, chroma, indexed_files, indexCalled,
                   lastIndexed, unchangedIndexed>>

\* force_reindex ignored: the files whose fingerprint is not recorded
FilesToLoadUnindexed(force_reindex) ==
    {p \in WalkedFiles : FileHash(p, fs[p]) \notin indexed_files}

\* The files index_documents passes to load_document
FilesToLoad(force_reindex) ==
    {p \in WalkedFiles :
        force_reindex \/ FileHash(p, fs[p]) \notin indexed_files}

\* Every file passed to load_document taken as indexed (no `if docs:`)
FilesIndexedAll(force_reindex) ==
    {p \in WalkedFiles :
        force_reindex \/ FileHash(p, fs[p]) \notin indexed_files}

\* The files whose chunks index_documents collects in all_documents
FilesIndexed(force_reindex) ==
    {p \in FilesToLoad(force_reindex) : load_document(p, fs[p]) # {}}

\* all_documents: the chunks of every file loaded in this call
AllDocuments(force_reindex) ==
    UNION {load_document(p, fs[p]) : p \in FilesIndexed(force_reindex)}

\* RAGSystem.index_documents; storeOk: add_documents and persist succeed
IndexDocuments(force_reindex, storeOk) ==
    IF vectorstore = None
    THEN /\ ragCall' = [NoCall EXCEPT !.op = "index_documents",
                                      !.force = force_reindex,
                                      !.outcome = "ValueError"]
         /\ UNCHANGED <<fs, edits, indexFile, chroma, vectorstore, retriever,
                        indexed_files, indexCalled, lastIndexed,
                        unchangedIndexed>>
    ELSE LET all_documents == AllDocuments(force_reindex)
             new_indexed == indexed_files \cup
                 {FileHash(p, fs[p]) : p \in FilesIndexed(force_reindex)}
         IN
         /\ indexed_files' = new_indexed
         /\ indexCalled' = TRUE
         /\ IF all_documents # {} /\ storeOk
            THEN /\ chroma' = chroma \cup all_documents
                 /\ indexFile' = save_indexed_files(new_indexed)
                 /\ lastIndexed' =
                      [p \in Paths |-> IF p \in FilesIndexed(force_reindex)
                                       THEN fs[p] ELSE lastIndexed[p]]
                 /\ unchangedIndexed' =
                      unchangedIndexed \cup FilesIndexed(force_reindex)
            ELSE UNCHANGED <<chroma, indexFile, lastIndexed, unchangedIndexed>>
         /\ ragCall' = [NoCall EXCEPT
                          !.op = "index_documents",
                          !.force = force_reindex,
                          !.first = ~indexCalled,
                          !.outcome = IF all_documents # {} /\ ~storeOk
                                      THEN "error" ELSE "ok",
                          !.loaded = FilesToLoad(force_reindex),
                          !.added = all_documents,
                          !.known =
                             {p \in FilesToLoad(force_reindex) :
                                 FileHash(p, fs[p]) \in indexed_files}]
         /\ UNCHANGED <<fs, edits, vectorstore, retriever>>

\* RAGSystem.search; retrieverOk: get_relevant_documents does not raise
Search(k, retrieverOk) ==
    /\ IF retriever = None
       THEN ragCall' = [NoCall EXCEPT !.op = "search", !.outcome = "ValueError"]
       ELSE IF ~retrieverOk
       THEN ragCall' = [NoCall EXCEPT !.op = "search",
                                      !.outcome = "retriever_error"]
       ELSE \E docs \in Rankings(chroma, RetrieverK) :
               ragCall' = [NoCall EXCEPT
                             !.op = "search", !.outcome = "ok",
                             !.result = SubSeq(docs, 1, Min(k, Len(docs)))]
    /\ UNCHANGED <<fs, edits, indexFile, chroma, vectorstore, retriever,
                   indexed_files, indexCalled, lastIndexed, unchangedIndexed>>

\* The environment writes, rewrites or removes a file
EditFile(p, c) ==
    /\ edits < MaxEdits
    /\ fs[p] # c
    /\ fs' = [fs EXCEPT ![p] = c]
    /\ edits' = edits + 1
    /\ unchangedIndexed' = unchangedIndexed \ {p}
    /\ ragCall' = [NoCall EXCEPT !.op = "edit"]
    /\ UNCHANGED <<indexFile, chroma, vectorstore, retriever, indexed_files,
                   indexCalled, lastIndexed>>

\* A new deployment: nothing indexed, no RAGSystem object
RagFresh ==
    /\ edits = 0
    /\ indexFile = NoFile
    /\ chroma = {}
    /\ vectorstore = None
    /\ retriever = None
    /\ indexed_files = {}
    /\ indexCalled = FALSE
    /\ ragCall = NoCall
    /\ lastIndexed = [p \in Paths |-> Absent]
    /\ unchangedIndexed = {}

RagInit ==
    /\ fs = [p \in Paths |-> IF p = PathTxt THEN <<"w">> ELSE Absent]
    /\ RagFresh

RagNext ==
    \/ NewRAGSystem
    \/ \E ok \in BOOLEAN : Initialize(ok)
    \/ \E force \in BOOLEAN, ok \in BOOLEAN : IndexDocuments(force, ok)
    \/ \E ok \in BOOLEAN : Search(DefaultK, ok)
    \/ \E p \in EditPaths, c \in Contents \cup {Absent} : EditFile(p, c)

----------------------------------------------------------------------------
(* src/ingestion/index_documents.py: chunk_text                            *)

\* Bounds on the texts and window sizes chunk_text is applied to
MaxTextLen == 4
MaxChunkSize == 3

\* def chunk_text(text, size=1000, overlap=200)
DefaultSize == 1000
DefaultOverlap == 200

TextAlphabet == {"a", "b"}

Texts == UNION {[1..n -> TextAlphabet] : n \in 0..MaxTextLen}

\* range(0, stop, step) for step > 0, as the sequence of its values
RECURSIVE RangeFrom(_, _, _)
RangeFrom(start, stop, step) ==
    IF start >= stop THEN <<>>
    ELSE <<start>> \o RangeFrom(start + step, stop, step)

\* text[a:b] for 0 <= a <= b
Slice(text, a, b) == SubSeq(text, a + 1, Min(b, Len(text)))

\* chunk_text with the window moved by `size`: the overlap is ignored
chunk_text_no_overlap(text, size, overlap) ==
    LET step == size
        starts == RangeFrom(0, Len(text), step)
    IN [outcome |-> "ok",
        chunks |-> [i \in 1..Len(starts) |->
                       [start |-> starts[i],
                        text |-> Slice(text, starts[i], starts[i] + size)]]]

\* chunk_text: the chunks it yields, each with the start it was cut at;
\* range() raises ValueError for a zero step and is empty for a negative one
chunk_text(text, size, overlap) ==
    LET step == size - overlap
        starts == IF step > 0 THEN RangeFrom(0, Len(text), step) ELSE <<>>
    IN IF step = 0
       THEN [outcome |-> "ValueError", chunks |-> <<>>]
       ELSE [outcome |-> "ok",
             chunks |-> [i \in 1..Len(starts) |->
                           [start |-> starts[i],
                            text |-> Slice(text, starts[i], starts[i] + size)]]]

ChunkNotCalled == [outcome |-> "none", chunks |-> <<>>]

\* list(chunk_text(text, size, overlap))
ChunkText ==
    /\ chunkOut = ChunkNotCalled
    /\ chunkOut' = chunk_text(chunkIn.text, chunkIn.size, chunkIn.overlap)
    /\ UNCHANGED <<chunkIn, toolVars, ragVars, cacheVars, keyVars, llmVars,
                   apiVars>>

\* chunk_text not in use: its default arguments, nothing yielded
ChunkIdle ==
    /\ chunkIn = [text |-> <<>>, size |-> DefaultSize, overlap |-> DefaultOverlap]
    /\ chunkOut = ChunkNotCalled

ChunkInit ==
    /\ chunkIn \in [text : Texts, size : 1..MaxChunkSize,
                    overlap : 0..MaxChunkSize]
    /\ chunkOut = ChunkNotCalled

----------------------------------------------------------------------------
(* src/chatbot/utils.py: extract_context over Chroma query results         *)

\* Bounds of the results drawn: strings per document list, document lists
MaxDocs == 2
MaxLists == 2

\* The documents of a result
DocStrings == {<<>>, <<"a">>, <<"b">>}

\* A Python value that is None or a list
NoneList == [none |-> TRUE, items |-> <<>>]
ListOf(items) == [none |-> FALSE, items |-> items]

\* bool(x) of a value that is None or a list
TruthyList(x) == ~x.none /\ x.items # <<>>

SeqsUpTo(S, n) == UNION {[1..k -> S] : k \in 0..n}

\* One entry of results["documents"]: None or a list of strings
DocLists == {NoneList} \cup {ListOf(l) : l \in SeqsUpTo(DocStrings, MaxDocs)}

\* results["documents"]: None (documents not included) or a list of lists
DocumentsValues ==
    {NoneList} \cup {ListOf(d) : d \in SeqsUpTo(DocLists, MaxLists)}

\* results: None, or a dict with its keys and the value under "documents"
NoResults == [none |-> TRUE, keys |-> {}, documents |-> NoneList]

ExtractInputs ==
    {NoResults}
    \cup {[none |-> FALSE, keys |-> k, documents |-> NoneList] :
             k \in {{}, {"ids"}}}
    \cup {[none |-> FALSE, keys |-> {"documents", "ids"}, documents |-> d] :
             d \in DocumentsValues}

\* results.get("documents")
GetDocuments(results) ==
    IF "documents" \in results.keys THEN results.documents ELSE NoneList

\* extract_context joining the last document list instead of the first
extract_context_last(results) ==
    IF results.none \/ results.keys = {} THEN <<>>
    ELSE LET docs == GetDocuments(results)
         IN IF TruthyList(docs) /\ Len(docs.items) > 0
               /\ TruthyList(docs.items[Len(docs.items)])
            THEN Join(docs.items[Len(docs.items)].items, <<"\n">>)
            ELSE <<>>

\* extract_context(results)
extract_context(results) ==
    IF results.none \/ results.keys = {} THEN <<>>
    ELSE LET docs == GetDocuments(results)
         IN IF TruthyList(docs) /\ Len(docs.items) > 0
               /\ TruthyList(docs.items[1])
            THEN Join(docs.items[1].items, <<"\n">>)
            ELSE <<>>

ExtractNotCalled == [outcome |-> "none", text |-> <<>>]

\* context = extract_context(results)
ExtractContext ==
    /\ extractOut = ExtractNotCalled
    /\ extractOut' = [outcome |-> "ok", text |-> extract_context(extractIn)]
    /\ UNCHANGED <<extractIn, pdfIn, pdfOut, chunkIn, chunkOut, ragVars,
                   cacheVars, keyVars, llmVars, apiVars>>

ExtractIdle == extractIn = NoResults /\ extractOut = ExtractNotCalled

ExtractInit == extractIn \in ExtractInputs /\ extractOut = ExtractNotCalled

----------------------------------------------------------------------------
(* src/ingestion/pdf_reader.py: read_pdf                                   *)

\* Bound of the PDFs drawn: number of pages
MaxPages == 2

\* page.get_text() of a page, and pytesseract's text of its image
PageTexts == {<<>>, <<"a">>, <<" ">>}
OcrTexts == {<<>>, <<"o1">>, <<"o2">>}

\* A PDF: the text layer of each page and the OCR text of each page image
Pdfs ==
    UNION {[pages : [1..n -> PageTexts], ocr : [1..n -> OcrTexts]] :
              n \in 0..MaxPages}

\* any(text) of a list of strings
AnyText(text) == \E i \in 1..Len(text) : text[i] # <<>>

\* read_pdf with all(text) in place of any(text)
read_pdf_all(pdf) ==
    IF \A i \in 1..Len(pdf.pages) : pdf.pages[i] # <<>>
    THEN [outcome |-> "ok", text |-> Join(pdf.pages, <<"\n">>), ocr |-> FALSE]
    ELSE [outcome |-> "ok", text |-> Join(pdf.ocr, <<"\n">>), ocr |-> TRUE]

\* read_pdf(path) on a PDF that opens
read_pdf(pdf) ==
    IF AnyText(pdf.pages)
    THEN [outcome |-> "ok", text |-> Join(pdf.pages, <<"\n">>), ocr |-> FALSE]
    ELSE [outcome |-> "ok", text |-> Join(pdf.ocr, <<"\n">>), ocr |-> TRUE]

PdfNotRead == [outcome |-> "none", text |-> <<>>, ocr |-> FALSE]

\* text = read_pdf(path)
ReadPdf ==
    /\ pdfOut = PdfNotRead
    /\ pdfOut' = read_pdf(pdfIn)
    /\ UNCHANGED <<pdfIn, extractIn, extractOut, chunkIn, chunkOut, ragVars,
                   cacheVars, keyVars, llmVars, apiVars>>

PdfIdle == pdfIn = [pages |-> <<>>, ocr |-> <<>>] /\ pdfOut = PdfNotRead

PdfInit == pdfIn \in Pdfs /\ pdfOut = PdfNotRead

----------------------------------------------------------------------------
(* Python values and their JSON form (json.dumps / json.loads)             *)

\* A Python value: a tag, an atom (a token string) and the items of a
\* container
Py(t, v, items) == [t |-> t, v |-> v, items |-> items]
PyNone == Py("None", <<>>, <<>>)
PyTrue == Py("bool", <<"True">>, <<>>)
PyFalse == Py("bool", <<"False">>, <<>>)
PyStr(x) == Py("str", x, <<>>)
PyInt(x) == Py("int", x, <<>>)
PyFloat(x) == Py("float", x, <<>>)
PyList(items) == Py("list", <<>>, items)
PyTuple(items) == Py("tuple", <<>>, items)
PySet(items) == Py("set", <<>>, items)
\* A dict as the sequence of its items, each a key and a value
PyItem(k, x) == Py("item", <<>>, <<k, x>>)
PyDict(items) == Py("dict", <<>>, items)

JsonTypeError == Py("TypeError", <<>>, <<>>)

\* json.dumps of a dict key: str kept, int/bool/None coerced to a string
DumpKey(k) ==
    CASE k.t = "str" -> k
      [] k.t = "int" -> PyStr(k.v)
      [] k.t = "bool" -> PyStr(IF k.v = <<"True">> THEN <<"true">> ELSE <<"false">>)
      [] k.t = "None" -> PyStr(<<"null">>)
      [] OTHER -> JsonTypeError

RECURSIVE Dumps(_)
\* json.dumps(value): the JSON document, or JsonTypeError when it raises
Dumps(x) ==
    CASE x.t \in {"None", "bool", "str", "int", "float"} -> x
      [] x.t \in {"list", "tuple"} ->
            IF \E i \in 1..Len(x.items) : Dumps(x.items[i]) = JsonTypeError
            THEN JsonTypeError
            ELSE Py("array", <<>>, [i \in 1..Len(x.items) |-> Dumps(x.items[i])])
      [] x.t = "dict" ->
            IF \E i \in 1..Len(x.items) :
                  \/ DumpKey(x.items[i].items[1]) = JsonTypeError
                  \/ Dumps(x.items[i].items[2]) = JsonTypeError
            THEN JsonTypeError
            ELSE Py("object", <<>>,
                    [i \in 1..Len(x.items) |->
                        PyItem(DumpKey(x.items[i].items[1]),
                               Dumps(x.items[i].items[2]))])
      [] OTHER -> JsonTypeError

RECURSIVE Loads(_)
\* json.loads(data) of a JSON document
Loads(j) ==
    CASE j.t = "array" ->
            PyList([i \in 1..Len(j.items) |-> Loads(j.items[i])])
      [] j.t = "object" ->
            PyDict([i \in 1..Len(j.items) |->
                       PyItem(j.items[i].items[1], Loads(j.items[i].items[2]))])
      [] OTHER -> j

\* The dicts the cache is asked to store
AnswerDict == PyDict(<<PyItem(PyStr(<<"answer">>), PyStr(<<"x">>)),
                       PyItem(PyStr(<<"sources">>), PyList(<<>>))>>)
IntKeyDict == PyDict(<<PyItem(PyInt(<<"1">>), PyStr(<<"x">>))>>)
SetDict == PyDict(<<PyItem(PyStr(<<"s">>), PySet(<<PyInt(<<"1">>)>>))>>)
CacheValues == {AnswerDict, IntKeyDict, SetDict}

----------------------------------------------------------------------------
(* CacheManager (backend/app/cache.py) over Redis                          *)

\* Bounds: clock advances, and increments of the statistics
MaxTicks == 2
MaxIncrements == 2

\* def set(self, key, value, ttl=86400)
DefaultTtl == 86400

\* Steps the clock advances by
TickSteps == {1, DefaultTtl - 1}

\* Strings given to generate_key: over the letters "a" and ":"
KeyStrings == {<<"a">>, <<"a", ":", "a">>, <<>>}
KeyContexts == {<<"None">>} \cup KeyStrings
NoContext == <<"None">>

\* content = f"{query}:{context}" if context else query
KeyContent(query, context) ==
    IF context # NoContext /\ context # <<>>
    THEN query \o <<":">> \o context ELSE query

\* CacheManager.generate_key
generate_key(query, context) ==
    <<"urbanisme:">> \o get_file_hash(KeyContent(query, context))

\* The cache keys of the model
CacheKeys == {generate_key(<<"a">>, NoContext), generate_key(<<"a">>, <<"a">>)}

\* A request field that is None
NoneStr == <<"#None">>

\* f"{x}" of an Optional[str]
FormatOptional(x) == IF x = NoneStr THEN <<"None">> ELSE x

\* Truthiness of an Optional[str]
TruthyStr(x) == x # NoneStr /\ x # <<>>

\* The request fields of the model
Communes == {NoneStr, <<"Montpellier">>}
Parcelles == {NoneStr, <<"AB">>}
ApiQuestions == {<<"HAUT", "eur">>, <<"zon", "e", "s">>}

\* cache.generate_key(f"{request.commune}:{request.question}")
QueryKey(commune, question) ==
    generate_key(FormatOptional(commune) \o <<":">> \o question, NoContext)

ApiKeys == {QueryKey(c, q) : c \in Communes, q \in ApiQuestions}

\* The statistics get_stats reports, and the names increment_stat is given
StatNames == {"total_queries", "cache_hits", "api_calls", "rag_searches",
              "llm_calls"}
IncrementNames == {"cache_hits", "hits"}

StatKey(name) == <<"stats:", name>>
RedisKeys ==
    CacheKeys \cup ApiKeys \cup {StatKey(n) : n \in StatNames \cup IncrementNames}

\* A key Redis does not hold
NoEntry == [data |-> PyNone, count |-> 0, expire |-> -1]
\* Keys without expiry (the counters)
Never == -1

\* The key is held and has not expired
Live(k) == redis[k] # NoEntry /\ (redis[k].expire = Never \/ clock < redis[k].expire)

\* redis_client.get(key)
RedisGet(k) == IF Live(k) THEN redis[k].data ELSE PyNone

\* Patterns given to delete: everything, one digest, a digest nobody has
DeletePatterns == {<<"*">>, get_file_hash(<<"a">>), <<"f", "f">>}

\* Redis glob match of a key against a pattern with at most a final "*"
GlobMatch(k, pat) ==
    IF pat # <<>> /\ pat[Len(pat)] = "*"
    THEN /\ Len(k) >= Len(pat) - 1
         /\ SubSeq(k, 1, Len(pat) - 1) = SubSeq(pat, 1, Len(pat) - 1)
    ELSE k = pat

\* redis_client.keys(pattern)
RedisKeysMatching(pat) == {k \in RedisKeys : Live(k) /\ GlobMatch(k, pat)}

NoCacheCall == [op |-> "none", key |-> <<>>, ret |-> PyNone,
                n |-> 0, stats |-> [s \in StatNames |-> 0]]

NoSet == [value |-> PyNone, expire |-> -1]

cacheFrame == <<ragVars, chunkVars, keyVars, llmVars, apiVars>>

\* __init__ without the except branch: the manager stays enabled
NewCacheManagerEnabled ==
    /\ enabled' = TRUE
    /\ cacheCall' = [NoCacheCall EXCEPT !.op = "__init__"]
    /\ UNCHANGED <<redisUp, redis, clock, ticks, lastSet, cacheFrame>>

\* CacheManager.__init__: connect and ping, or run without cache
NewCacheManager ==
    /\ enabled' = redisUp
    /\ cacheCall' = [NoCacheCall EXCEPT !.op = "__init__"]
    /\ UNCHANGED <<redisUp, redis, clock, ticks, lastSet, cacheFrame>>

\* What get(key) returns in the current state
GetResult(key) ==
    IF enabled /\ redisUp /\ RedisGet(key) # PyNone
    THEN Loads(RedisGet(key)) ELSE PyNone

\* get returning the stored string without json.loads
GetNoLoads(key) ==
    /\ cacheCall' =
          [NoCacheCall EXCEPT
             !.op = "get", !.key = key,
             !.ret = IF enabled /\ redisUp THEN RedisGet(key) ELSE PyNone]
    /\ UNCHANGED <<redisUp, redis, clock, ticks, enabled, lastSet, cacheFrame>>

\* CacheManager.get
Get(key) ==
    /\ cacheCall' = [NoCacheCall EXCEPT !.op = "get", !.key = key,
                                        !.ret = GetResult(key)]
    /\ UNCHANGED <<redisUp, redis, clock, ticks, enabled, lastSet, cacheFrame>>

\* CacheManager.set
Set(key, value, ttl) ==
    LET stored == enabled /\ redisUp /\ Dumps(value) # JsonTypeError IN
    /\ redis' = IF stored
                THEN [redis EXCEPT ![key] = [data |-> Dumps(value),
                                             count |-> 0,
                                             expire |-> clock + ttl]]
                ELSE redis
    /\ lastSet' = IF stored
                  THEN [lastSet EXCEPT ![key] = [value |-> value,
                                                 expire |-> clock + ttl]]
                  ELSE lastSet
    /\ cacheCall' = [NoCacheCall EXCEPT
                       !.op = "set", !.key = key,
                       !.ret = IF stored THEN PyTrue ELSE PyFalse]
    /\ UNCHANGED <<redisUp, clock, ticks, enabled, cacheFrame>>

\* delete with the pattern given to Redis without the "urbanisme:" prefix
DeleteNoPrefix(pattern) ==
    LET keys == IF enabled /\ redisUp THEN RedisKeysMatching(pattern) ELSE {}
    IN
    /\ redis' = [k \in RedisKeys |-> IF k \in keys THEN NoEntry ELSE redis[k]]
    /\ lastSet' = [k \in CacheKeys |-> IF k \in keys THEN NoSet ELSE lastSet[k]]
    /\ cacheCall' = [NoCacheCall EXCEPT !.op = "delete", !.key = pattern,
                                        !.n = Cardinality(keys)]
    /\ UNCHANGED <<redisUp, clock, ticks, enabled, cacheFrame>>

\* delete handing Redis only the first of the matching keys
DeleteFirstKey(pattern) ==
    LET keys == IF enabled /\ redisUp
                THEN RedisKeysMatching(<<"urbanisme:">> \o pattern) ELSE {}
        first == IF keys = {} THEN {} ELSE {CHOOSE k \in keys : TRUE}
    IN
    /\ redis' = [k \in RedisKeys |-> IF k \in first THEN NoEntry ELSE redis[k]]
    /\ lastSet' = [k \in CacheKeys |-> IF k \in first THEN NoSet ELSE lastSet[k]]
    /\ cacheCall' = [NoCacheCall EXCEPT !.op = "delete", !.key = pattern,
                                        !.n = Cardinality(first)]
    /\ UNCHANGED <<redisUp, clock, ticks, enabled, cacheFrame>>

\* CacheManager.delete
Delete(pattern) ==
    LET keys == IF enabled /\ redisUp
                THEN RedisKeysMatching(<<"urbanisme:">> \o pattern) ELSE {}
    IN
    /\ redis' = [k \in RedisKeys |-> IF k \in keys THEN NoEntry ELSE redis[k]]
    /\ lastSet' = [k \in CacheKeys |-> IF k \in keys THEN NoSet ELSE lastSet[k]]
    /\ cacheCall' = [NoCacheCall EXCEPT !.op = "delete", !.key = pattern,
                                        !.n = Cardinality(keys)]
    /\ UNCHANGED <<redisUp, clock, ticks, enabled, cacheFrame>>

\* int(value) of a counter string
\* A counter as Redis holds it (a decimal string, kept as its number)
Counter(n) == [data |-> Py("counter", <<>>, <<>>), count |-> n, expire |-> Never]

\* int(value) if value else 0
CounterOf(k) == IF Live(k) THEN redis[k].count ELSE 0

TotalIncrements ==
    LET names == IncrementNames
        RECURSIVE Sum(_)
        Sum(S) == IF S = {} THEN 0
                  ELSE LET x == CHOOSE x \in S : TRUE
                       IN CounterOf(StatKey(x)) + Sum(S \ {x})
    IN Sum(names)

\* CacheManager.increment_stat
IncrementStat(stat_name) ==
    /\ TotalIncrements < MaxIncrements
    /\ LET done == enabled /\ redisUp
           new == CounterOf(StatKey(stat_name)) + 1
       IN
       /\ redis' = IF done
                   THEN [redis EXCEPT ![StatKey(stat_name)] = Counter(new)]
                   ELSE redis
       /\ cacheCall' = [NoCacheCall EXCEPT !.op = "increment_stat",
                                           !.key = <<stat_name>>,
                                           !.n = IF done THEN new ELSE 0]
    /\ UNCHANGED <<redisUp, clock, ticks, enabled, lastSet, cacheFrame>>

\* What get_stats returns in the current state
StatsReport ==
    [s \in StatNames |->
        IF enabled /\ redisUp THEN CounterOf(StatKey(s)) ELSE 0]

\* CacheManager.get_stats
GetStats ==
    /\ cacheCall' = [NoCacheCall EXCEPT !.op = "get_stats",
                                        !.stats = StatsReport]
    /\ UNCHANGED <<redisUp, redis, clock, ticks, enabled, lastSet, cacheFrame>>

\* The "status" of what health_check returns in the current state
HealthStatus ==
    IF ~enabled THEN <<"disabled">>
    ELSE IF redisUp THEN <<"healthy">> ELSE <<"error">>

\* CacheManager.health_check
HealthCheck ==
    /\ cacheCall' = [NoCacheCall EXCEPT !.op = "health_check",
                                        !.ret = PyStr(HealthStatus)]
    /\ UNCHANGED <<redisUp, redis, clock, ticks, enabled, lastSet, cacheFrame>>

\* Time passes
Tick(d) ==
    /\ ticks < MaxTicks
    /\ clock' = clock + d
    /\ ticks' = ticks + 1
    /\ cacheCall' = [NoCacheCall EXCEPT !.op = "tick"]
    /\ UNCHANGED <<redisUp, redis, enabled, lastSet, cacheFrame>>

\* The Redis server stops or resumes answering
RedisToggle ==
    /\ redisUp' = ~redisUp
    /\ cacheCall' = [NoCacheCall EXCEPT !.op = "redis"]
    /\ UNCHANGED <<redis, clock, ticks, enabled, lastSet, cacheFrame>>

\* No CacheManager in use: Redis empty and answering, cache enabled
CacheIdle ==
    /\ redisUp = TRUE
    /\ redis = [k \in RedisKeys |-> NoEntry]
    /\ clock = 0
    /\ ticks = 0
    /\ enabled = TRUE
    /\ cacheCall = NoCacheCall
    /\ lastSet = [k \in CacheKeys |-> NoSet]

\* A CacheManager constructed on an empty Redis that answers or not
CacheInit ==
    /\ redisUp \in BOOLEAN
    /\ redis = [k \in RedisKeys |-> NoEntry]
    /\ clock = 0
    /\ ticks = 0
    /\ enabled = redisUp
    /\ cacheCall = NoCacheCall
    /\ lastSet = [k \in CacheKeys |-> NoSet]

\* generate_key called twice
KeyNotCalled == [called |-> FALSE, content1 |-> <<>>, content2 |-> <<>>,
                 key1 |-> <<>>, key2 |-> <<>>]

GenerateKeys ==
    /\ ~keyOut.called
    /\ keyOut' = [called |-> TRUE,
                  content1 |-> KeyContent(keyIn.q1, keyIn.c1),
                  content2 |-> KeyContent(keyIn.q2, keyIn.c2),
                  key1 |-> generate_key(keyIn.q1, keyIn.c1),
                  key2 |-> generate_key(keyIn.q2, keyIn.c2)]
    /\ UNCHANGED <<keyIn, ragVars, chunkVars, cacheVars, llmVars, apiVars>>

KeyIdle ==
    /\ keyIn = [q1 |-> <<>>, c1 |-> NoContext, q2 |-> <<>>, c2 |-> NoContext]
    /\ keyOut = KeyNotCalled

KeyInit ==
    /\ keyIn \in [q1 : KeyStrings, c1 : KeyContexts,
                  q2 : KeyStrings, c2 : KeyContexts]
    /\ keyOut = KeyNotCalled

CacheNext ==
    \/ NewCacheManager
    \/ \E k \in CacheKeys : Get(k)
    \/ \E k \in CacheKeys, x \in CacheValues : Set(k, x, DefaultTtl)
    \/ \E pat \in DeletePatterns : Delete(pat)
    \/ \E name \in IncrementNames : IncrementStat(name)
    \/ GetStats
    \/ HealthCheck
    \/ \E d \in TickSteps : Tick(d)
    \/ RedisToggle

----------------------------------------------------------------------------
(* LocalLLM (backend/app/llm.py)                                           *)

\* str.lower on the tokens of the model
LowerToken(t) ==
    CASE t = "HAUT" -> "haut" [] t = "Zon" -> "zon" [] t = "Plu" -> "plu"
      [] t = "Montpellier" -> "montpellier" [] t = "W" -> "w"
      [] t = "DOC" -> "doc" [] OTHER -> t

Lower(s) == [i \in 1..Len(s) |-> LowerToken(s[i])]

\* The placeholders a template may hold, each one token of the template
Placeholders == {"{context}", "{question}", "{zone}"}

\* LocalLLM.prompt_templates
PromptTemplates ==
    [general |-> <<"Tu es un assistant expert en urbanisme. Contexte:",
                   "{context}", "Question de l'utilisateur:", "{question}",
                   "Réponse:">>,
     zonage  |-> <<"Tu es un expert en zonage urbain (PLU). Zone concernée:",
                   "{zone}", "Règlement applicable:", "{context}",
                   "Question:", "{question}", "Réponse:">>,
     hauteur |-> <<"Tu es un expert en règles d'urbanisme. Contexte:",
                   "{context}", "Question sur les hauteurs:", "{question}",
                   "Réponse:">>]

\* self.prompt_templates.get(template_type, self.prompt_templates["general"])
TemplateOf(template_type) ==
    IF template_type \in DOMAIN PromptTemplates
    THEN PromptTemplates[template_type] ELSE PromptTemplates["general"]

\* The placeholders of a template
TemplateVariables(template) ==
    {template[i] : i \in 1..Len(template)} \cap Placeholders

\* input_variables=["context", "question"]
InputVariables == {"{context}", "{question}"}

KeyError == <<"#KeyError">>

\* prompt.format(**kwargs): str.format of the template, KeyError when a
\* placeholder has no value
Format(template, kwargs) ==
    IF ~(TemplateVariables(template) \subseteq DOMAIN kwargs) THEN KeyError
    ELSE Concat([i \in 1..Len(template) |->
                    IF template[i] \in Placeholders THEN kwargs[template[i]]
                    ELSE <<template[i]>>])

\* llm.py: max_context_length = 2000
MaxContextLength == 2000

\* The cut keeping the end of the context instead of its beginning
TruncateTail(context) ==
    IF Len(context) > MaxContextLength
    THEN <<".", ".", ".">>
         \o SubSeq(context, Len(context) - MaxContextLength + 1, Len(context))
    ELSE context

\* context[:max_context_length] + "..." when the context is longer
Truncate(context) ==
    IF Len(context) > MaxContextLength
    THEN SubSeq(context, 1, MaxContextLength) \o <<".", ".", ".">>
    ELSE context

Apology ==
    <<"Désolé, je n'ai pas pu générer une réponse. Veuillez réessayer.">>

\* The words analyze_question_type looks for
HauteurWords == {<<"haut", "eur">>, <<"haut">>, <<"étage">>, <<"faît", "age">>}
ZonageWords == {<<"zon", "e">>, <<"zon", "age">>, <<"secteur">>}

\* LocalLLM.analyze_question_type
analyze_question_type(question) ==
    IF \E word \in HauteurWords : Contains(Lower(question), word)
    THEN "hauteur"
    ELSE IF \E word \in ZonageWords : Contains(Lower(question), word)
    THEN "zonage"
    ELSE "general"

\* The questions of the model: "HAUTeur", "zones", "zonage", "emprise",
\* "étage", "?"
Questions == {<<"HAUT", "eur">>, <<"zon", "e", "s">>, <<"zon", "age">>,
              <<"emprise">>, <<"étage">>, <<"?">>}

\* main.py: f"Zone {zone}:\n{reglement}\n\n", what query_urbanisme puts
\* before the RAG context when the parcel has a zone with a regulation
ZoneHeader(zone, reglement) ==
    <<"Zone ">> \o zone \o <<":", "\n">> \o reglement \o <<"\n\n">>

\* main.py: context = f"Zone {zone}:\n{reglement}\n\n{context}"
ZoneContext(zone, reglement, context) ==
    ZoneHeader(zone, reglement) \o context

\* RAG contexts: empty, short, and one character longer than the limit
\* (long texts are sequences of one-character tokens)
RagContexts == {<<>>, <<"c">>, [i \in 1..(MaxContextLength + 1) |-> "c"]}

\* Zone regulations: a short one, and one longer than the limit
Regulations == {<<"R">>, [i \in 1..(MaxContextLength + 1) |-> "R"]}

\* The contexts generate_response is given: a RAG context, alone or
\* behind the regulation of the parcel's zone
LlmContexts ==
    RagContexts
    \cup {ZoneContext(<<"UB">>, r, c) : r \in Regulations, c \in RagContexts}

\* What the model generates for a prompt, or LlmRaises when inference fails
LlmRaises == <<"#raises">>
LlmOutputs == {<<" ", "r", " ">>, <<>>, LlmRaises}

\* The outcomes of inference drawn for the requests of the API
ApiLlmOutputs == {<<" ", "r", " ">>, LlmRaises}

NoLlmCall == [op |-> "none", question |-> <<>>, context |-> <<>>,
              template_type |-> "", outcome |-> "none", invoked |-> FALSE,
              prompt |-> <<>>, response |-> <<>>]

\* generate_response with the errors of formatting and inference left to
\* propagate (no try block)
generate_response_no_try(loaded, question, context, template_type, out) ==
    LET template == TemplateOf(template_type)
        truncated == Truncate(context)
        formatted == Format(template, [v \in InputVariables |->
                                          IF v = "{context}" THEN truncated
                                          ELSE question])
        call == [NoLlmCall EXCEPT !.op = "generate_response",
                                  !.question = question, !.context = context,
                                  !.template_type = template_type]
    IN
    IF ~loaded THEN [call EXCEPT !.outcome = "ValueError"]
    ELSE IF formatted = KeyError
    THEN [call EXCEPT !.outcome = "KeyError"]
    ELSE IF out = LlmRaises
    THEN [call EXCEPT !.outcome = "error", !.invoked = TRUE,
                      !.prompt = formatted]
    ELSE [call EXCEPT !.outcome = "ok", !.invoked = TRUE,
                      !.prompt = formatted, !.response = Strip(out)]

\* The outcome of generate_response(question, context, template_type) on an
\* object whose llm is set or not. The PromptTemplate of langchain_core
\* (the release line that ships langchain_community, imported here) does
\* not validate the template when constructed: a placeholder without a
\* value surfaces in prompt.format, inside the try block
generate_response(loaded, question, context, template_type, out) ==
    LET template == TemplateOf(template_type)
        truncated == Truncate(context)
        formatted == Format(template, [v \in InputVariables |->
                                          IF v = "{context}" THEN truncated
                                          ELSE question])
        call == [NoLlmCall EXCEPT !.op = "generate_response",
                                  !.question = question, !.context = context,
                                  !.template_type = template_type]
    IN
    IF ~loaded THEN [call EXCEPT !.outcome = "ValueError"]
    ELSE IF formatted = KeyError
    THEN [call EXCEPT !.outcome = "apology", !.response = Apology]
    ELSE IF out = LlmRaises
    THEN [call EXCEPT !.outcome = "apology", !.invoked = TRUE,
                      !.prompt = formatted, !.response = Apology]
    ELSE [call EXCEPT !.outcome = "ok", !.invoked = TRUE,
                      !.prompt = formatted, !.response = Strip(out)]

llmFrame == <<ragVars, chunkVars, cacheVars, keyVars, apiVars>>

\* LocalLLM.load_model: it succeeds, fails before the model is there, or
\* fails after self.model is set and before self.llm is
LoadOutcomes == {"ok", "error", "partial"}

LoadModel(outcome) ==
    /\ model' = (model \/ outcome \in {"ok", "partial"})
    /\ llm' = (llm \/ outcome = "ok")
    /\ llmCall' = [NoLlmCall EXCEPT !.op = "load_model",
                      !.outcome = IF outcome = "ok" THEN "ok" ELSE "error"]
    /\ UNCHANGED llmFrame

\* LocalLLM.analyze_question_type
AnalyzeQuestionType(question) ==
    /\ llmCall' = [NoLlmCall EXCEPT !.op = "analyze_question_type",
                      !.question = question,
                      !.template_type = analyze_question_type(question),
                      !.outcome = "ok"]
    /\ UNCHANGED <<model, llm, llmFrame>>

\* LocalLLM.generate_response, with the template type of the question, the
\* default one, or a type that is no key of prompt_templates
GenerateResponse(question, context, template_type, out) ==
    /\ llmCall' = generate_response(llm, question, context, template_type,
                                    out)
    /\ UNCHANGED <<model, llm, llmFrame>>

LlmIdle ==
    /\ model = FALSE
    /\ llm = FALSE
    /\ llmCall = NoLlmCall

LlmNext ==
    \/ \E outcome \in LoadOutcomes : LoadModel(outcome)
    \/ \E q \in Questions : AnalyzeQuestionType(q)
    \/ \E q \in Questions, c \in LlmContexts, out \in LlmOutputs :
          \E tt \in {analyze_question_type(q), "general", "inconnu"} :
              GenerateResponse(q, c, tt, out)

----------------------------------------------------------------------------
(* backend/main.py: the API process                                        *)

\* Bound on the number of /api/query requests
MaxQueries == 1

\* api_mock.py: the content of the sample files
SampleZonage == <<"{montpellier: {zones: {UA, UB, UC}}}">>
SampleReglement == <<"RÈGLEMENT ZONE UB">>
SamplePlu == <<"{commune: Montpellier}">>

SampleContent(p) ==
    IF p = PathSampleZonage THEN SampleZonage
    ELSE IF p = PathSampleReglement THEN SampleReglement ELSE SamplePlu

\* not any(dir_path.iterdir())
DirEmpty(files, dir) ==
    \A p \in Paths : ParentName(p) = dir => files[p] = Absent

\* MockUrbanismAPI.ensure_directories
EnsureDirectories(files) ==
    [p \in Paths |->
        IF p \in SamplePaths /\ DirEmpty(files, ParentName(p))
        THEN SampleContent(p) ELSE files[p]]

\* MockUrbanismAPI.load_mock_data: the communes whose zonage/*.json parsed
LoadMockData(files) ==
    [zonage |-> {Stem(p) : p \in {q \in Paths :
                                    /\ ParentName(q) = "zonage"
                                    /\ Suffix(q) = ".json"
                                    /\ files[q] = SampleZonage}}]

\* MockUrbanismAPI.get_zonage_parcelle: the zone, or None
get_zonage_parcelle(commune, parcelle) ==
    IF Lower(commune) \in mockData.zonage THEN <<"UB">> ELSE NoneStr

\* MockUrbanismAPI.get_reglement_zone
get_reglement_zone(commune, zone) ==
    IF fs[PathSampleReglement] # Absent /\ Utf8Ok(fs[PathSampleReglement])
    THEN fs[PathSampleReglement]
    ELSE <<"Règlement de la zone ">> \o zone \o <<" non disponible">>

\* main.py: the canned answers of generate_fallback_response
FallbackHauteur == <<"La hauteur maximale autorisée varie selon le zonage.">>
FallbackZone == <<"Le zonage dépend du PLU de chaque commune.">>
FallbackEmprise == <<"L'emprise au sol maximale varie selon les zones.">>
FallbackDefault == <<"Je peux vous aider avec les questions sur le zonage.">>

\* main.py: generate_fallback_response
generate_fallback_response(question, commune) ==
    IF Contains(Lower(question), <<"haut", "eur">>) THEN FallbackHauteur
    ELSE IF Contains(Lower(question), <<"zon", "e">>) THEN FallbackZone
    ELSE IF Contains(Lower(question), <<"emprise">>) THEN FallbackEmprise
    ELSE FallbackDefault

\* str(i + 1) for the sources of a context
Digits == <<"1", "2", "3", "4", "5">>

\* The filter without the fallback to all the documents
FilterCommuneStrict(docs, commune) ==
    IF TruthyStr(commune) /\ docs # <<>>
    THEN SelectSeq(docs, LAMBDA d :
             \/ Contains(Lower(d.page_content), Lower(commune))
             \/ Contains(Lower(d.source), Lower(commune)))
    ELSE docs

\* RAGSystem.get_context_for_question: the documents kept for the commune
FilterCommune(docs, commune) ==
    LET filtered == SelectSeq(docs, LAMBDA d :
                       \/ Contains(Lower(d.page_content), Lower(commune))
                       \/ Contains(Lower(d.source), Lower(commune)))
    IN IF TruthyStr(commune) /\ docs # <<>> /\ filtered # <<>>
       THEN filtered ELSE docs

\* RAGSystem.get_context_for_question: the formatted context
FormatContext(docs) ==
    Join([i \in 1..Len(docs) |->
             <<"[Source ", Digits[i], ": ">> \o docs[i].source
             \o (IF docs[i].zone # <<>>
                 THEN <<" - Zone ">> \o docs[i].zone ELSE <<>>)
             \o <<"]", "\n">> \o docs[i].page_content],
         <<"\n\n">>)

\* The communes given to get_context_for_question: none, the empty
\* string, a word of the documents in upper case, a part of a path in
\* upper case, and a name found nowhere
RagCommunes == {NoneStr, <<>>, <<"W">>, <<"DOC">>, <<"Paris">>}

\* RAGSystem.get_context_for_question; retrieverOk as in Search
GetContextForQuestion(commune, retrieverOk) ==
    /\ IF retriever = None
       THEN ragCall' = [NoCall EXCEPT !.op = "get_context_for_question",
                                      !.commune = commune,
                                      !.outcome = "ValueError"]
       ELSE \E docs \in (IF retrieverOk
                         THEN {SubSeq(r, 1, Min(DefaultK, Len(r))) :
                                  r \in Rankings(chroma, RetrieverK)}
                         ELSE {<<>>}) :
               ragCall' = [NoCall EXCEPT
                             !.op = "get_context_for_question",
                             !.outcome = "ok",
                             !.commune = commune,
                             !.retrieved = docs,
                             !.result = FilterCommune(docs, commune),
                             !.context =
                                 FormatContext(FilterCommune(docs, commune))]
    /\ UNCHANGED <<fs, edits, indexFile, chroma, vectorstore, retriever,
                   indexed_files, indexCalled, lastIndexed, unchangedIndexed>>

\* Documents directories whose files have been indexed: a text file, a
\* Markdown file and the PDF regulation of zone UB, each there or not
ContextFiles ==
    {[p \in Paths |-> IF p = PathTxt THEN a
                      ELSE IF p = PathMd THEN b
                      ELSE IF p = PathPdf THEN c ELSE Absent] :
        a \in {Absent, <<"w">>}, b \in {Absent, <<"v">>, <<"w">>},
        c \in {Absent, <<"v">>}}

\* A RAGSystem whose walk of the directory is indexed in the persist
\* directory: the object that indexed it, or a new one not yet initialized
ContextInit ==
    /\ fs \in ContextFiles
    /\ edits = 0
    /\ chroma = AllDocuments(TRUE)
    /\ indexFile = IF AllDocuments(TRUE) = {} THEN NoFile
                   ELSE save_indexed_files(
                            {FileHash(p, fs[p]) : p \in FilesIndexed(TRUE)})
    /\ lastIndexed = [p \in Paths |-> IF p \in FilesIndexed(TRUE) THEN fs[p]
                                      ELSE Absent]
    /\ unchangedIndexed = FilesIndexed(TRUE)
    /\ \/ /\ vectorstore = "Chroma"
          /\ retriever = "Retriever"
          /\ indexed_files = {FileHash(p, fs[p]) : p \in FilesIndexed(TRUE)}
          /\ indexCalled = TRUE
          /\ ragCall = [NoCall EXCEPT !.op = "index_documents",
                                      !.first = TRUE, !.outcome = "ok",
                                      !.loaded = WalkedFiles,
                                      !.added = AllDocuments(TRUE)]
       \/ /\ vectorstore = None
          /\ retriever = None
          /\ indexed_files = load_indexed_files(indexFile, {})
          /\ indexCalled = FALSE
          /\ ragCall = [NoCall EXCEPT !.op = "__init__", !.outcome = "ok"]

\* llm.py: doc.page_content[:200] + "..." when longer than 200
ExtraitLength == 200

Extrait(content) ==
    IF Len(content) > ExtraitLength
    THEN SubSeq(content, 1, ExtraitLength) \o <<".", ".", ".">> ELSE content

\* LocalLLM.format_response_with_sources: the first three sources
FormatSources(sources) ==
    PyList([i \in 1..Min(3, Len(sources)) |->
               PyDict(<<PyItem(PyStr(<<"type">>), PyStr(<<sources[i].type>>)),
                        PyItem(PyStr(<<"zone">>), PyStr(sources[i].zone)),
                        PyItem(PyStr(<<"extrait">>),
                               PyStr(Extrait(sources[i].page_content)))>>)])

\* LocalLLM.model_name
ModelName == <<"OpenLLM-France/Claire-7B-0.1">>

\* main.py: response_data of a generated answer
ResponseData(answer, sources) ==
    PyDict(<<PyItem(PyStr(<<"answer">>), PyStr(answer)),
             PyItem(PyStr(<<"sources">>), FormatSources(sources)),
             PyItem(PyStr(<<"model">>), PyStr(ModelName)),
             PyItem(PyStr(<<"cached">>), PyFalse),
             PyItem(PyStr(<<"processing_time">>), PyFloat(<<"t">>))>>)

\* d.get(key, default) of a dict
DictGet(d, key, default) ==
    IF \E i \in 1..Len(d.items) : d.items[i].items[1] = PyStr(key)
    THEN d.items[CHOOSE i \in 1..Len(d.items) :
                    d.items[i].items[1] = PyStr(key)].items[2]
    ELSE default

\* bool(x) counted only once the readiness tests have passed (the cache
\* lookup placed after them)
TruthyWhenReady(x) ==
    /\ x # PyNone /\ ~(x.t \in {"dict", "list"} /\ x.items = <<>>)
    /\ initialization_status.rag /\ initialization_status.llm /\ model

\* bool(x) of what cache.get returned
Truthy(x) == x # PyNone /\ ~(x.t \in {"dict", "list"} /\ x.items = <<>>)

\* cache.increment_stat(name) under `if cache:`
Incremented(r, name) ==
    IF cache # None /\ enabled /\ redisUp
    THEN [r EXCEPT ![StatKey(name)] = Counter(r[StatKey(name)].count + 1)]
    ELSE r

\* The test of llm_manager.model left out
ModelLoadedAlways == TRUE

\* llm_manager.model is set (main.py: `if not llm_manager.model`)
ModelLoaded == model

\* initialization_status["rag"] and initialization_status["llm"], with any
\* in place of all
ServicesReadyAny == initialization_status.rag \/ initialization_status.llm

\* all([initialization_status["rag"], initialization_status["llm"]])
ServicesReady == initialization_status.rag /\ initialization_status.llm

NoApiCall == [op |-> "none", question |-> <<>>, commune |-> NoneStr,
              parcelle |-> NoneStr, use_cache |-> FALSE, hit |-> FALSE,
              status |-> 0, answer |-> <<>>, sources |-> PyList(<<>>),
              cached |-> FALSE, model_used |-> NoneStr, prompt |-> <<>>,
              calls |-> {}, health |-> <<>>, cache_status |-> NoneStr]

apiFrame == <<chunkVars, keyVars>>

\* main.py: initialize_services, run by startup_event; each service is
\* created or its creation raises
InitializeServices(cacheOk, mockOk, llmOk, ragOk) ==
    /\ ~started
    /\ started' = TRUE
    /\ pending' = {"load_llm_model", "index_documents"}
    /\ cache' = IF cacheOk THEN "CacheManager" ELSE None
    /\ enabled' = IF cacheOk THEN redisUp ELSE enabled
    /\ mock_api' = IF mockOk THEN "MockUrbanismAPI" ELSE None
    /\ fs' = IF mockOk THEN EnsureDirectories(fs) ELSE fs
    /\ mockData' = IF mockOk THEN LoadMockData(EnsureDirectories(fs))
                   ELSE mockData
    /\ llm_manager' = IF llmOk THEN "LocalLLM" ELSE None
    /\ rag_system' = IF ragOk THEN "RAGSystem" ELSE None
    /\ indexed_files' = load_indexed_files(indexFile, {})
    /\ vectorstore' = IF ragOk THEN "Chroma" ELSE None
    /\ retriever' = IF ragOk THEN "Retriever" ELSE None
    /\ indexCalled' = FALSE
    /\ ragCall' = [NoCall EXCEPT !.op = "initialize",
                                 !.outcome = IF ragOk THEN "ok" ELSE "error"]
    /\ initialization_status' =
          [initialization_status EXCEPT !.cache = cacheOk, !.mock_api = mockOk,
                                        !.llm = llmOk, !.rag = ragOk]
    /\ UNCHANGED <<apiCall, edits, indexFile, chroma, lastIndexed, unchangedIndexed,
                   redisUp, redis, clock, ticks, cacheCall, lastSet,
                   llmVars, served, apiFrame>>

\* main.py: load_llm_model, the background task of startup_event
LoadLlmModelTask(outcome) ==
    /\ "load_llm_model" \in pending
    /\ pending' = pending \ {"load_llm_model"}
    /\ IF llm_manager # None /\ ~model
       THEN /\ model' = (outcome \in {"ok", "partial"})
            /\ llm' = (outcome = "ok")
       ELSE UNCHANGED <<model, llm>>
    /\ UNCHANGED <<ragVars, cacheVars, llmCall, cache, mock_api, llm_manager,
                   rag_system, initialization_status, started, served,
                   mockData, apiCall, apiFrame>>

\* main.py: index_documents, the background task of startup_event
IndexDocumentsTask(storeOk) ==
    /\ "index_documents" \in pending
    /\ pending' = pending \ {"index_documents"}
    /\ IF rag_system # None
       THEN /\ IndexDocuments(FALSE, storeOk)
            /\ initialization_status' =
                  [initialization_status EXCEPT
                     !.documents_indexed = @ \/ ragCall'.outcome = "ok"]
       ELSE UNCHANGED <<ragVars, initialization_status>>
    /\ UNCHANGED <<cacheVars, llmVars, cache, mock_api, llm_manager,
                   rag_system, started, served, mockData, apiCall, apiFrame>>

\* all(...) over the four service flags only, documents_indexed left out
AllServicesInitialized ==
    /\ initialization_status.cache /\ initialization_status.mock_api
    /\ initialization_status.llm /\ initialization_status.rag

\* all(initialization_status.values())
AllInitialized ==
    \A f \in DOMAIN initialization_status : initialization_status[f]

\* main.py: health_check (GET /health)
Health ==
    /\ started
    /\ apiCall' =
          [NoApiCall EXCEPT
             !.op = "health", !.status = 200,
             !.health = IF AllInitialized THEN <<"healthy">>
                        ELSE <<"degraded">>,
             !.cache_status = IF cache # None /\ enabled THEN HealthStatus
                              ELSE NoneStr]
    /\ UNCHANGED <<ragVars, cacheVars, llmVars, cache, mock_api, llm_manager,
                   rag_system, initialization_status, started, pending,
                   served, mockData, apiFrame>>

\* main.py: clear_cache
ClearCache ==
    /\ started
    /\ LET keys == IF cache # None /\ enabled /\ redisUp
                   THEN RedisKeysMatching(<<"urbanisme:", "*">>) ELSE {}
       IN
       /\ redis' = [k \in RedisKeys |-> IF k \in keys THEN NoEntry ELSE redis[k]]
       /\ lastSet' = [k \in CacheKeys |-> IF k \in keys THEN NoSet
                                          ELSE lastSet[k]]
    /\ UNCHANGED <<ragVars, redisUp, clock, ticks, enabled, cacheCall, llmVars,
                   cache, mock_api, llm_manager, rag_system,
                   initialization_status, started, pending, served, mockData,
                   apiCall, apiFrame>>

\* main.py: refresh_index (POST /api/index/refresh): 503 without a RAG
\* system, else the forced indexing is queued as a background task. One
\* such task is outstanding at a time.
RefreshIndex ==
    /\ started
    /\ "refresh_index" \notin pending
    /\ IF rag_system = None
       THEN /\ apiCall' = [NoApiCall EXCEPT !.op = "refresh_index",
                                            !.status = 503]
            /\ UNCHANGED pending
       ELSE /\ apiCall' = [NoApiCall EXCEPT !.op = "refresh_index",
                                            !.status = 200]
            /\ pending' = pending \cup {"refresh_index"}
    /\ UNCHANGED <<ragVars, cacheVars, llmVars, cache, mock_api, llm_manager,
                   rag_system, initialization_status, started, served,
                   mockData, apiFrame>>

\* The background task of refresh_index:
\* rag_system.index_documents(force_reindex=True)
RefreshIndexTask(storeOk) ==
    /\ "refresh_index" \in pending
    /\ pending' = pending \ {"refresh_index"}
    /\ IndexDocuments(TRUE, storeOk)
    /\ UNCHANGED <<cacheVars, llmVars, cache, mock_api, llm_manager,
                   rag_system, initialization_status, started, served,
                   mockData, apiCall, apiFrame>>

\* The files edited while the service runs: a text file indexed at startup,
\* a Markdown file and a file load_document does not support; and what is
\* written to them: text, other text, bytes that are not UTF-8
RefreshPaths == {PathTxt, PathMd, PathJson}
RefreshContents == {<<"w">>, <<"v">>, <<"X">>}

\* The environment edits the documents directory of the running service
EditDocuments(p, c) ==
    /\ EditFile(p, c)
    /\ UNCHANGED <<cacheVars, llmVars, apiVars, apiFrame>>

\* The service with its documents directory, its index tasks and the
\* refresh route
RefreshNext ==
    \/ \E ragOk \in BOOLEAN : InitializeServices(TRUE, TRUE, TRUE, ragOk)
    \/ \E storeOk \in BOOLEAN : IndexDocumentsTask(storeOk)
    \/ RefreshIndex
    \/ \E storeOk \in BOOLEAN : RefreshIndexTask(storeOk)
    \/ \E p \in RefreshPaths, c \in RefreshContents \cup {Absent} :
          EditDocuments(p, c)

\* main.py: query_urbanisme (POST /api/query). retrieverOk: the similarity
\* search does not raise; out: what the inference returns, or it raises
Query(question, commune, parcelle, use_cache, retrieverOk, out) ==
    /\ started
    /\ served < MaxQueries
    /\ served' = served + 1
    /\ LET r0 == Incremented(redis, "total_queries")
           lookup == use_cache /\ cache # None /\ enabled
           cache_key == QueryKey(commune, question)
           cached_result == IF lookup THEN GetResult(cache_key) ELSE PyNone
           request == [NoApiCall EXCEPT
                         !.op = "query", !.question = question,
                         !.commune = commune, !.parcelle = parcelle,
                         !.use_cache = use_cache,
                         !.calls = IF lookup THEN {"cache_get"} ELSE {}]
       IN
       IF Truthy(cached_result)
       THEN /\ redis' = Incremented(r0, "cache_hits")
            /\ apiCall' =
                 [request EXCEPT
                    !.hit = TRUE, !.status = 200, !.cached = TRUE,
                    !.answer = DictGet(cached_result, <<"answer">>,
                                       PyStr(<<>>)).v,
                    !.sources = DictGet(cached_result, <<"sources">>,
                                        PyList(<<>>)),
                    !.model_used =
                        IF DictGet(cached_result, <<"model_used">>, PyNone)
                              = PyNone
                        THEN NoneStr
                        ELSE DictGet(cached_result, <<"model_used">>,
                                     PyNone).v]
       ELSE IF ~ServicesReady
       THEN /\ redis' = r0
            /\ apiCall' =
                 [request EXCEPT
                    !.status = 200,
                    !.answer = generate_fallback_response(question, commune),
                    !.model_used = <<"fallback">>,
                    !.calls = @ \cup {"fallback"}]
       ELSE IF ~ModelLoaded
       THEN /\ redis' = r0
            /\ apiCall' = [request EXCEPT !.status = 503]
       ELSE \E docs \in (IF retrieverOk
                         THEN {SubSeq(r, 1, Min(DefaultK, Len(r))) :
                                  r \in Rankings(chroma, RetrieverK)}
                         ELSE {<<>>}) :
            LET r1 == Incremented(Incremented(r0, "rag_searches"),
                                  "llm_calls")
                sources == FilterCommune(docs, commune)
                useMock == /\ TruthyStr(parcelle) /\ TruthyStr(commune)
                           /\ mock_api # None
                zone == IF useMock THEN get_zonage_parcelle(commune, parcelle)
                        ELSE NoneStr
                reglement == IF zone # NoneStr
                             THEN get_reglement_zone(commune, zone) ELSE <<>>
                context == IF reglement # <<>>
                           THEN ZoneContext(zone, reglement,
                                            FormatContext(sources))
                           ELSE FormatContext(sources)
                gen == generate_response(llm, question, context,
                                         analyze_question_type(question),
                                         out)
                made == request.calls \cup {"rag", "llm"}
                           \cup (IF useMock THEN {"mock_api"} ELSE {})
                           \cup (IF gen.invoked THEN {"llm_invoked"} ELSE {})
                response_data == ResponseData(gen.response, sources)
            IN
            IF gen.outcome = "ValueError"
            THEN /\ redis' = r1
                 /\ apiCall' = [request EXCEPT !.status = 500, !.calls = made]
            ELSE /\ redis' =
                      IF lookup /\ redisUp
                      THEN [r1 EXCEPT ![cache_key] =
                               [data |-> Dumps(response_data), count |-> 0,
                                expire |-> clock + DefaultTtl]]
                      ELSE r1
                 /\ apiCall' =
                      [request EXCEPT
                         !.status = 200, !.answer = gen.response,
                         !.sources = FormatSources(sources),
                         !.prompt = gen.prompt,
                         !.calls = made \cup (IF lookup THEN {"cache_set"}
                                              ELSE {})]
    /\ UNCHANGED <<ragVars, redisUp, clock, ticks, enabled, cacheCall, lastSet,
                   llmVars, cache, mock_api, llm_manager, rag_system,
                   initialization_status, started, pending, mockData,
                   apiFrame>>

\* The Redis server stops or resumes answering
RedisOutage ==
    /\ started
    /\ redisUp' = ~redisUp
    /\ UNCHANGED <<ragVars, redis, clock, ticks, enabled, cacheCall, lastSet,
                   llmVars, cache, mock_api, llm_manager, rag_system,
                   initialization_status, started, pending, served, mockData,
                   apiCall, apiFrame>>

\* Whether the template chosen for a question is rendered by the values
\* generate_response supplies (the draws below skip the inputs that have
\* no effect on the request)
Renders(question) ==
    Format(TemplateOf(analyze_question_type(question)),
           [v \in InputVariables |-> <<>>])

ApiIdle ==
    /\ cache = None
    /\ mock_api = None
    /\ llm_manager = None
    /\ rag_system = None
    /\ initialization_status =
          [cache |-> FALSE, mock_api |-> FALSE, llm |-> FALSE, rag |-> FALSE,
           documents_indexed |-> FALSE]
    /\ started = FALSE
    /\ pending = {}
    /\ served = 0
    /\ mockData = [zonage |-> {}]
    /\ apiCall = NoApiCall

\* The documents directory before the process starts: one text file,
\* which names the commune
ApiFiles ==
    [p \in Paths |-> IF p = PathTxt THEN <<"Montpellier">> ELSE Absent]

\* Redis before the process starts: empty, or holding the answer an earlier
\* run of the service cached less than a TTL ago
ApiRedis ==
    {[k \in RedisKeys |-> NoEntry],
     [k \in RedisKeys |->
         IF k = QueryKey(NoneStr, <<"HAUT", "eur">>)
         THEN [data |-> Dumps(ResponseData(<<"r">>, <<>>)), count |-> 0,
               expire |-> DefaultTtl]
         ELSE NoEntry]}

ApiInit ==
    /\ ApiIdle
    /\ fs = ApiFiles
    /\ RagFresh
    /\ redisUp \in BOOLEAN
    /\ redis \in ApiRedis
    /\ clock = 0
    /\ ticks = 0
    /\ enabled = FALSE
    /\ cacheCall = NoCacheCall
    /\ lastSet = [k \in CacheKeys |-> NoSet]
    /\ LlmIdle

ApiNext ==
    \/ \E cacheOk, mockOk, llmOk, ragOk \in BOOLEAN :
          InitializeServices(cacheOk, mockOk, llmOk, ragOk)
    \/ \E outcome \in LoadOutcomes : LoadLlmModelTask(outcome)
    \/ \E storeOk \in BOOLEAN : IndexDocumentsTask(storeOk)
    \/ ClearCache
    \/ Health
    \/ RedisOutage
    \/ \E q \in ApiQuestions, c \in Communes, use_cache \in BOOLEAN :
          \E p \in (IF c = NoneStr THEN {NoneStr} ELSE Parcelles),
             retrieverOk \in (IF ServicesReady /\ model THEN BOOLEAN
                              ELSE {TRUE}),
             out \in (IF ServicesReady /\ llm /\ Renders(q) # KeyError
                      THEN ApiLlmOutputs ELSE {LlmRaises}) :
             Query(q, c, p, use_cache, retrieverOk, out)

----------------------------------------------------------------------------
(* Specifications                                                          *)

\* None of chunk_text, extract_context and read_pdf is in use
ToolsIdle == ChunkIdle /\ ExtractIdle /\ PdfIdle

InitRag == RagInit /\ ToolsIdle /\ CacheIdle /\ KeyIdle /\ LlmIdle /\ ApiIdle

NextRag == RagNext /\ UNCHANGED <<chunkVars, cacheVars, keyVars, llmVars, apiVars>>

SpecRag == InitRag /\ [][NextRag]_vars

InitContext ==
    ContextInit /\ ToolsIdle /\ CacheIdle /\ KeyIdle /\ LlmIdle /\ ApiIdle

NextContext ==
    /\ \E c \in RagCommunes, ok \in BOOLEAN : GetContextForQuestion(c, ok)
    /\ UNCHANGED <<chunkVars, cacheVars, keyVars, llmVars, apiVars>>

SpecContext == InitContext /\ [][NextContext]_vars

InitChunk == ChunkInit /\ ExtractIdle /\ PdfIdle /\ RagInit /\ CacheIdle /\ KeyIdle /\ LlmIdle /\ ApiIdle

NextChunk == ChunkText

SpecChunk == InitChunk /\ [][NextChunk]_vars

InitExtract ==
    ExtractInit /\ ChunkIdle /\ PdfIdle /\ RagInit /\ CacheIdle /\ KeyIdle
    /\ LlmIdle /\ ApiIdle

NextExtract == ExtractContext

SpecExtract == InitExtract /\ [][NextExtract]_vars

InitPdf ==
    PdfInit /\ ChunkIdle /\ ExtractIdle /\ RagInit /\ CacheIdle /\ KeyIdle
    /\ LlmIdle /\ ApiIdle

NextPdf == ReadPdf

SpecPdf == InitPdf /\ [][NextPdf]_vars

InitCache == CacheInit /\ RagInit /\ ToolsIdle /\ KeyIdle /\ LlmIdle /\ ApiIdle

NextCache == CacheNext

SpecCache == InitCache /\ [][NextCache]_vars

InitKey == KeyInit /\ RagInit /\ ToolsIdle /\ CacheIdle /\ LlmIdle /\ ApiIdle

NextKey == GenerateKeys

SpecKey == InitKey /\ [][NextKey]_vars

InitLlm == LlmIdle /\ RagInit /\ ToolsIdle /\ CacheIdle /\ KeyIdle /\ ApiIdle

NextLlm == LlmNext

SpecLlm == InitLlm /\ [][NextLlm]_vars

InitApi == ApiInit /\ ToolsIdle /\ KeyIdle

InitRefresh ==
    /\ ApiIdle /\ RagInit /\ CacheIdle /\ LlmIdle /\ ToolsIdle /\ KeyIdle

NextRefresh == RefreshNext

SpecRefresh == InitRefresh /\ [][NextRefresh]_vars

NextApi == ApiNext

SpecApi == InitApi /\ [][NextApi]_vars

----------------------------------------------------------------------------
(* Properties of RAGSystem (SpecRag)                                       *)

IndexNoForce == \E ok \in BOOLEAN : IndexDocuments(FALSE, ok)

SupportedSuffixes == {".txt", ".md", ".pdf"}

\* C1: re-indexing is deduplicated by the per-file fingerprint: in every
\* index_documents(force_reindex=False) call, no chunk of a file whose path
\* and bytes are unchanged since a completed call indexed it is passed to
\* add_documents again; a new RAGSystem on the same persist directory
\* included.
C1_Dedup ==
    [][IndexNoForce =>
         \A d \in ragCall'.added : d.source \notin unchangedIndexed]_vars

\* C2: a supported non-empty file whose bytes differ from the
\* bytes it had when it was last indexed is loaded again by the next
\* index_documents(force_reindex=False) call and its chunks are added.
C2_ChangeDetectedSinceLast ==
    [][(IndexNoForce /\ vectorstore # None) =>
         \A p \in WalkedFiles :
             (/\ Suffix(p) \in SupportedSuffixes
              /\ fs[p] # <<>>
              /\ lastIndexed[p] # Absent
              /\ lastIndexed[p] # fs[p])
             => (/\ p \in ragCall'.loaded
                 /\ load_document(p, fs[p]) \subseteq ragCall'.added)]_vars

\* C10: after initialize() and one index_documents() (the first call of
\* the object, returning normally) the store holds a chunk of every walked
\* supported file with text in it, and search then returns a non-empty list
\* (unless the retriever raises); before initialize() index_documents and
\* search raise ValueError.
C10_IndexThenSearch ==
    /\ (ragCall.op = "index_documents" /\ ragCall.first
            /\ ragCall.outcome = "ok")
       => \A p \in WalkedFiles :
             load_document(p, fs[p]) # {} => \E d \in chroma : d.source = p
    /\ (ragCall.op = "search" /\ ragCall.outcome = "ok"
            /\ \E p \in WalkedFiles : \E d \in chroma : d.source = p)
       => ragCall.result # <<>>
    /\ (ragCall.op \in {"index_documents", "search"} /\ vectorstore = None)
       => ragCall.outcome = "ValueError"

\* The commune name occurs in s, whatever the case of the letters
ContainsCommune(s, commune) ==
    \E i \in 0..(Len(s) - Len(commune)) :
        \A j \in 1..Len(commune) :
            LowerToken(s[i + j]) = LowerToken(commune[j])

\* The page content or the source path of the document names the commune
Names(d, commune) ==
    ContainsCommune(d.page_content, commune)
    \/ ContainsCommune(d.source, commune)

\* The number of source headers of a context
Headers(context) ==
    Cardinality({i \in 1..Len(context) : context[i] = "[Source "})

\* C19: get_context_for_question with a commune keeps exactly the
\* retrieved documents whose page content or source path contains the
\* commune name, whatever the case, when there is one, and all the
\* retrieved documents when there is none; the sources returned are the
\* documents the context was built from, in order, numbered Source 1..n.
C19_CommuneFilter ==
    (ragCall.op = "get_context_for_question" /\ ragCall.outcome = "ok") =>
        LET docs == ragCall.retrieved
            kept == ragCall.result
            commune == ragCall.commune
        IN /\ (commune # NoneStr /\ commune # <<>>)
                 => IF \E i \in 1..Len(docs) : Names(docs[i], commune)
                    THEN kept = SelectSeq(docs,
                                          LAMBDA d : Names(d, commune))
                    ELSE kept = docs
           /\ (commune = NoneStr \/ commune = <<>>) => kept = docs
           /\ Headers(ragCall.context) = Len(kept)
           /\ \A i \in 1..Len(kept) :
                 /\ Contains(ragCall.context,
                             <<"[Source ", Digits[i], ": ">> \o kept[i].source)
                 /\ Contains(ragCall.context,
                             <<"]", "\n">> \o kept[i].page_content)
           /\ \A i, j \in 1..Len(ragCall.context) :
                 (/\ i < j
                  /\ ragCall.context[i] = "[Source "
                  /\ ragCall.context[j] = "[Source ")
                 => \E m, n \in 1..Len(kept) :
                       /\ m < n
                       /\ ragCall.context[i + 1] = Digits[m]
                       /\ ragCall.context[j + 1] = Digits[n]

\* C19 witness: two documents retrieved, one of them with the commune's
\* word in lower case, and it alone is kept as Source 1
C19_Witness ==
    /\ ragCall.op = "get_context_for_question"
    /\ ragCall.outcome = "ok"
    /\ ragCall.commune = <<"W">>
    /\ Len(ragCall.retrieved) = 2
    /\ Len(ragCall.result) = 1
    /\ ragCall.result[1].page_content = <<"w">>
    /\ Headers(ragCall.context) = 1

\* The files under the walked sub-directories for which load_document
\* yields no chunks: unsupported suffix, blank text, or a read error
NoChunkFiles ==
    {p \in Paths : /\ fs[p] # Absent
                   /\ ParentName(p) \in Subdirs
                   /\ load_document(p, fs[p]) = {}}

\* C20: a file for which load_document yields no chunks is not added to
\* indexed_files and adds nothing to the vector store, and every
\* index_documents call passes it to load_document again; a call in
\* which no file yields chunks writes neither the vector store nor
\* indexed_files.txt.
C20_NoChunkFiles ==
    [][(ragCall'.op = "index_documents" /\ ragCall'.outcome # "ValueError")
       => /\ \A p \in NoChunkFiles :
                /\ FileHash(p, fs[p]) \notin indexed_files'
                /\ p \in ragCall'.loaded
                /\ \A d \in ragCall'.added \cup (chroma' \ chroma) :
                      d.source # p
          /\ ragCall'.added = {}
                => /\ chroma' = chroma
                   /\ indexFile' = indexFile
                   /\ indexed_files' = indexed_files]_vars

\* C20 witness: a second index_documents call of the object examined the
\* .json file and a blank Markdown file again and added nothing
C20_Witness ==
    /\ ragCall.op = "index_documents"
    /\ ragCall.outcome = "ok"
    /\ ~ragCall.first
    /\ fs[PathJson] # Absent
    /\ fs[PathMd] = <<" ">>
    /\ {PathJson, PathMd} \subseteq ragCall.loaded
    /\ ragCall.added = {}
    /\ \A p \in {PathJson, PathMd} : FileHash(p, fs[p]) \notin indexed_files

----------------------------------------------------------------------------
(* Properties of chunk_text (SpecChunk)                                    *)

ChunkCount == Len(chunkOut.chunks)

\* Number of characters of the text that lie in both chunk i and chunk i+1
SharedChars(i) ==
    Cardinality(
      {k \in 1..Len(chunkIn.text) :
         /\ chunkOut.chunks[i].start < k
         /\ k <= chunkOut.chunks[i].start + Len(chunkOut.chunks[i].text)
         /\ chunkOut.chunks[i + 1].start < k
         /\ k <= chunkOut.chunks[i + 1].start + Len(chunkOut.chunks[i + 1].text)})

ValidWindow == chunkIn.overlap >= 0 /\ chunkIn.overlap < chunkIn.size

\* C3 as stated: every chunk has exactly `size` characters, each chunk
\* starts size - overlap after the previous one, and two consecutive chunks
\* share exactly `overlap` characters.
C3_FixedSizeWindows ==
    (chunkOut.outcome = "ok" /\ ValidWindow) =>
        /\ \A i \in 1..ChunkCount :
              Len(chunkOut.chunks[i].text) = chunkIn.size
        /\ \A i \in 1..(ChunkCount - 1) :
              /\ chunkOut.chunks[i + 1].start =
                    chunkOut.chunks[i].start + chunkIn.size - chunkIn.overlap
              /\ SharedChars(i) = chunkIn.overlap

\* C3 amended: for 0 <= overlap < size every chunk is the window of at most
\* `size` characters at its start, exactly `size` long unless fewer
\* characters remain; the first starts at 0 and each next one size - overlap
\* later, a chunk starting at every such offset below len(text); two
\* consecutive chunks share exactly `overlap` characters when the earlier
\* one is full-size and len(earlier) - (size - overlap) otherwise, the end of
\* the earlier being the beginning of the later.
C3_OverlappingWindows ==
    (chunkOut.outcome = "ok" /\ ValidWindow) =>
        LET step == chunkIn.size - chunkIn.overlap
            n == Len(chunkIn.text)
            c == chunkOut.chunks
        IN
        /\ \A i \in 1..ChunkCount :
              /\ c[i].start = (i - 1) * step
              /\ c[i].start < n
              /\ Len(c[i].text) = Min(chunkIn.size, n - c[i].start)
              /\ \A k \in 1..Len(c[i].text) :
                    c[i].text[k] = chunkIn.text[c[i].start + k]
        /\ ChunkCount * step >= n
        /\ \A i \in 1..(ChunkCount - 1) :
              /\ SharedChars(i) = Len(c[i].text) - step
              /\ (Len(c[i].text) = chunkIn.size
                     => SharedChars(i) = chunkIn.overlap)
              /\ SubSeq(c[i].text, step + 1, Len(c[i].text))
                    = SubSeq(c[i + 1].text, 1, Len(c[i].text) - step)

\* C3 witness: three chunks with a positive overlap, the last one short
C3_Witness ==
    /\ chunkOut.outcome = "ok" /\ ValidWindow
    /\ chunkIn.overlap > 0
    /\ ChunkCount >= 3
    /\ Len(chunkOut.chunks[ChunkCount].text) < chunkIn.size
    /\ Len(chunkOut.chunks[1].text) = chunkIn.size

----------------------------------------------------------------------------
(* Properties of CacheManager (SpecCache, SpecKey)                         *)

RECURSIVE JsonNative(_)
\* Built only from string-keyed dicts, lists, strings, numbers, booleans, None
JsonNative(x) ==
    CASE x.t \in {"None", "bool", "str", "int", "float"} -> TRUE
      [] x.t = "list" -> \A i \in 1..Len(x.items) : JsonNative(x.items[i])
      [] x.t = "dict" ->
            \A i \in 1..Len(x.items) :
                /\ x.items[i].items[1].t = "str"
                /\ JsonNative(x.items[i].items[2])
      [] OTHER -> FALSE

\* The set that holds for the key has not outlived its TTL
Held(k) == lastSet[k] # NoSet /\ clock < lastSet[k].expire

\* C5 as stated: with the cache enabled set returns True and every later
\* get returns a value equal to the value set, until the entry is
\* overwritten, deleted or has outlived its TTL; then get returns None.
C5_RoundTrip ==
    [][/\ \A k \in CacheKeys, x \in CacheValues :
             (Set(k, x, DefaultTtl) /\ enabled) => cacheCall'.ret = PyTrue
       /\ \A k \in CacheKeys :
             (Get(k) /\ enabled) =>
                 cacheCall'.ret = IF Held(k) THEN lastSet[k].value
                                  ELSE PyNone]_vars

\* C5 amended: with the cache enabled and Redis answering, set returns True
\* exactly for a JSON-serialisable value (False otherwise), and every later
\* get that Redis answers returns json.loads(json.dumps(value)), which equals
\* the value when it is built only from string-keyed dicts, lists, strings,
\* numbers, booleans and None, until the entry is overwritten, deleted or has
\* outlived its TTL; after the TTL, or when the cache is disabled or Redis
\* does not answer, get returns None.
C5_JsonRoundTrip ==
    [][/\ \A k \in CacheKeys, x \in CacheValues :
             Set(k, x, DefaultTtl) =>
                 (cacheCall'.ret = PyTrue
                    <=> (enabled /\ redisUp /\ x.t = "dict"
                         /\ \A i \in 1..Len(x.items) :
                               x.items[i].items[2].t # "set"))
       /\ \A k \in CacheKeys :
             Get(k) =>
                 IF enabled /\ redisUp /\ Held(k)
                 THEN /\ cacheCall'.ret.t = "dict"
                      /\ Dumps(cacheCall'.ret) = Dumps(lastSet[k].value)
                      /\ (JsonNative(lastSet[k].value)
                            => cacheCall'.ret = lastSet[k].value)
                 ELSE cacheCall'.ret = PyNone]_vars

\* C5 witness: one second before the TTL ends, get returns the dict set
C5_Witness ==
    /\ cacheCall.op = "get"
    /\ cacheCall.ret = AnswerDict
    /\ clock = DefaultTtl - 1
    /\ lastSet[cacheCall.key].expire = DefaultTtl

\* The live cache entries whose key matches "urbanisme:" + pattern
Matching(pat) ==
    {k \in CacheKeys : Live(k) /\ GlobMatch(k, <<"urbanisme:">> \o pat)}

\* C6 as stated: delete(pattern) removes every stored entry whose key
\* matches "urbanisme:" + pattern and returns their number; after
\* delete("*") get returns None for every key of generate_key.
C6_DeleteRemoves ==
    [][\A pat \in DeletePatterns :
          Delete(pat) =>
              /\ \A k \in Matching(pat) : redis'[k] = NoEntry
              /\ cacheCall'.n = Cardinality(Matching(pat))
              /\ (pat = <<"*">> => \A k \in CacheKeys : ~Live(k)')]_vars

\* C6 amended: with the cache enabled and Redis answering, delete(pattern)
\* removes exactly the stored entries whose key matches "urbanisme:" +
\* pattern and returns their number, and after delete("*") get returns None
\* for every key of generate_key until a later set stores it; with the cache
\* disabled or Redis not answering, delete removes nothing and returns 0.
C6_DeleteWhileAnswering ==
    [][/\ \A pat \in DeletePatterns :
             Delete(pat) =>
                 IF enabled /\ redisUp
                 THEN /\ \A k \in RedisKeys :
                            redis'[k] = IF k \in Matching(pat)
                                        THEN NoEntry ELSE redis[k]
                      /\ cacheCall'.n = Cardinality(Matching(pat))
                      /\ (pat = <<"*">> =>
                            \A k \in CacheKeys : GetResult(k)' = PyNone)
                 ELSE redis' = redis /\ cacheCall'.n = 0
       /\ \A k \in CacheKeys :
             (Get(k) /\ redis[k] = NoEntry) => cacheCall'.ret = PyNone
       /\ \A k \in CacheKeys :
             (redis[k] = NoEntry /\ redis'[k] # NoEntry)
                => \E x \in CacheValues : Set(k, x, DefaultTtl)]_vars

\* C6 witness: delete("*") removed the two stored entries
C6_Witness ==
    /\ cacheCall.op = "delete" /\ cacheCall.key = <<"*">>
    /\ cacheCall.n = 2
    /\ \A k \in CacheKeys : redis[k] = NoEntry

\* The five counters as Redis holds them
Counters == [s \in StatNames |-> CounterOf(StatKey(s))]

\* C7: get_stats reports exactly the five counters; their values change
\* only by increment_stat on one of the five names (by one): increment_stat
\* on another name, set, get and delete leave all five unchanged.
C7_StatsFrame ==
    [][/\ GetStats =>
             /\ DOMAIN cacheCall'.stats = StatNames
             /\ cacheCall'.stats =
                   IF enabled /\ redisUp THEN Counters
                   ELSE [s \in StatNames |-> 0]
       /\ \A name \in IncrementNames :
             IncrementStat(name) =>
                 Counters' = IF name \in StatNames /\ enabled /\ redisUp
                             THEN [Counters EXCEPT ![name] = @ + 1]
                             ELSE Counters
       /\ Counters' # Counters
             => \E name \in IncrementNames \cap StatNames : IncrementStat(name)]_vars

\* C7 witness: after sets and an increment of another name, get_stats
\* reports the one increment of cache_hits
C7_Witness ==
    /\ cacheCall.op = "get_stats"
    /\ cacheCall.stats["cache_hits"] = 1
    /\ cacheCall.stats["total_queries"] = 0
    /\ CounterOf(StatKey("hits")) = 1
    /\ \E k \in CacheKeys : Live(k)

\* C8: generate_key is a function of (query, context), its keys start with
\* "urbanisme:", and two calls hash the same content string only if they
\* were given the same query and the same context.
C8_UniqueKey ==
    keyOut.called =>
        /\ Head(keyOut.key1) = "urbanisme:" /\ Head(keyOut.key2) = "urbanisme:"
        /\ (keyIn.q1 = keyIn.q2 /\ keyIn.c1 = keyIn.c2
               => keyOut.key1 = keyOut.key2)
        /\ (keyOut.content1 = keyOut.content2
               => (keyIn.q1 = keyIn.q2 /\ keyIn.c1 = keyIn.c2))

----------------------------------------------------------------------------
(* Properties of LocalLLM (SpecLlm)                                        *)

\* C9: with a loaded model, generate_response takes the template of the
\* given type ('general' for an unknown type), supplies every placeholder
\* of it, and invokes the LLM with the rendered prompt, which holds the
\* question and the context and no placeholder.
C9_PromptRendered ==
    (llmCall.op = "generate_response" /\ llmCall.outcome # "ValueError") =>
        /\ llmCall.invoked
        /\ \A i \in 1..Len(TemplateOf(llmCall.template_type)) :
              \/ TemplateOf(llmCall.template_type)[i] \in Placeholders
              \/ Contains(llmCall.prompt,
                          <<TemplateOf(llmCall.template_type)[i]>>)
        /\ (llmCall.template_type \notin DOMAIN PromptTemplates =>
              Contains(llmCall.prompt, <<PromptTemplates["general"][1]>>))
        /\ \A i \in 1..Len(llmCall.prompt) : llmCall.prompt[i] \notin Placeholders
        /\ Contains(llmCall.prompt, llmCall.question)
        /\ Contains(llmCall.prompt, Truncate(llmCall.context))

----------------------------------------------------------------------------
(* Properties of the API process (SpecApi)                                 *)

\* C4: a query that finds no cache hit while the RAG system or the LLM is
\* not initialized is answered normally with the canned text of
\* generate_fallback_response for its question, sources = [], cached = False
\* and model_used = 'fallback', without calling the RAG system, the mock API
\* or the LLM and without an HTTP error.
C4_DegradedFallback ==
    (/\ apiCall.op = "query"
     /\ ~apiCall.hit
     /\ (initialization_status.rag = FALSE \/ initialization_status.llm = FALSE))
    => /\ apiCall.status = 200
       /\ apiCall.answer =
             (IF apiCall.question = <<"HAUT", "eur">> THEN FallbackHauteur
              ELSE FallbackZone)
       /\ apiCall.answer = generate_fallback_response(apiCall.question,
                                                      apiCall.commune)
       /\ apiCall.sources = PyList(<<>>)
       /\ apiCall.cached = FALSE
       /\ apiCall.model_used = <<"fallback">>
       /\ apiCall.calls \cap {"rag", "mock_api", "llm", "llm_invoked",
                              "cache_set"} = {}

\* C4 witness: the cache was looked up without a hit, the LLM is not
\* initialized, and the canned answer on heights came back
C4_Witness ==
    /\ apiCall.op = "query"
    /\ ~apiCall.hit
    /\ "cache_get" \in apiCall.calls
    /\ initialization_status.rag /\ ~initialization_status.llm
    /\ apiCall.answer = FallbackHauteur
    /\ apiCall.model_used = <<"fallback">>

\* The operations of a CacheManager object (not its construction, the
\* clock or the server)
CacheOps == {"get", "set", "delete", "increment_stat", "get_stats",
             "health_check"}

\* What each operation returns in no-cache mode
DisabledResult ==
    /\ cacheCall'.op = "get" => cacheCall'.ret = PyNone
    /\ cacheCall'.op = "set" => cacheCall'.ret = PyFalse
    /\ cacheCall'.op = "delete" => cacheCall'.n = 0
    /\ cacheCall'.op = "increment_stat" => cacheCall'.n = 0
    /\ cacheCall'.op = "get_stats"
          => /\ DOMAIN cacheCall'.stats
                   = {"total_queries", "cache_hits", "api_calls",
                      "rag_searches", "llm_calls"}
             /\ \A s \in DOMAIN cacheCall'.stats : cacheCall'.stats[s] = 0
    /\ cacheCall'.op = "health_check"
          => cacheCall'.ret = PyStr(<<"disabled">>)

\* C15: a CacheManager whose construction could not reach Redis is
\* disabled, and a disabled manager stays disabled: get returns None, set
\* False, delete 0, increment_stat 0, get_stats the five counters as 0 and
\* health_check the status "disabled", and no operation changes Redis.
C15_NoCacheMode ==
    [][/\ (cacheCall'.op = "__init__" /\ ~redisUp) => ~enabled'
       /\ (~enabled /\ cacheCall'.op \in CacheOps)
             => /\ ~enabled'
                /\ redis' = redis
                /\ DisabledResult]_vars

\* C15 witness: a disabled manager, Redis answering again and holding
\* nothing, asked for its health
C15_Witness ==
    /\ ~enabled
    /\ redisUp
    /\ cacheCall.op = "health_check"
    /\ cacheCall.ret = PyStr(<<"disabled">>)

\* C17: generate_response raises ValueError when self.llm is None, and
\* once the LLM wrapper exists no failure of prompt formatting or of
\* inference propagates: the call returns, and what it returns after such
\* a failure is the fixed apology string.
C17_ErrorsHandled ==
    llmCall.op = "generate_response" =>
        IF ~llm THEN llmCall.outcome = "ValueError"
        ELSE /\ llmCall.outcome \in {"ok", "apology"}
             /\ llmCall.outcome = "apology" => llmCall.response = Apology
             /\ llmCall.outcome = "ok" => llmCall.invoked
             /\ Format(TemplateOf(llmCall.template_type),
                       [v \in InputVariables |-> <<>>]) = KeyError
                   => llmCall.outcome = "apology"

\* C17 witness: the wrapper exists, the template of the call cannot be
\* formatted, and the apology came back without an inference
C17_Witness ==
    /\ llm
    /\ llmCall.op = "generate_response"
    /\ llmCall.template_type = "zonage"
    /\ llmCall.outcome = "apology"
    /\ ~llmCall.invoked
    /\ llmCall.response = Apology

\* The context part of a rendered prompt of the "general" or "hauteur"
\* template: what stands between the opening text and the question line
ContextPart(prompt, question) ==
    SubSeq(prompt, 2, Len(prompt) - Len(question) - 2)

\* s begins with p
StartsWith(s, p) == Len(s) >= Len(p) /\ SubSeq(s, 1, Len(p)) = p

\* The prompt of the last call was rendered
Rendered ==
    /\ llmCall.op = "generate_response"
    /\ llmCall.invoked
    /\ llmCall.template_type # "zonage"

\* The context is used unchanged up to 2000 characters, and cut to its
\* first 2000 characters followed by "..." beyond
ContextBounded ==
    LET part == ContextPart(llmCall.prompt, llmCall.question)
        context == llmCall.context
    IN /\ Len(part) <= MaxContextLength + 3
       /\ Len(context) <= MaxContextLength => part = context
       /\ Len(context) > MaxContextLength
             => /\ Len(part) = MaxContextLength + 3
                /\ StartsWith(context, SubSeq(part, 1, MaxContextLength))
                /\ SubSeq(part, MaxContextLength + 1, MaxContextLength + 3)
                      = <<".", ".", ".">>

----------------------------------------------------------------------------
(* Properties of extract_context (SpecExtract) and read_pdf (SpecPdf)      *)

RECURSIVE IsJoin(_, _)
\* text is the strings of parts, in their order, with one line break
\* between consecutive ones
IsJoin(text, parts) ==
    IF parts = <<>> THEN text = <<>>
    ELSE IF Len(parts) = 1 THEN text = parts[1]
    ELSE /\ Len(text) > Len(parts[1])
         /\ SubSeq(text, 1, Len(parts[1])) = parts[1]
         /\ text[Len(parts[1]) + 1] = "\n"
         /\ IsJoin(SubSeq(text, Len(parts[1]) + 2, Len(text)), Tail(parts))

\* results is None, empty, has no "documents" entry, or its first document
\* list is missing or empty
NoFirstDocuments(results) ==
    \/ results.none
    \/ results.keys = {}
    \/ "documents" \notin results.keys
    \/ results.documents.none
    \/ results.documents.items = <<>>
    \/ results.documents.items[1].none
    \/ results.documents.items[1].items = <<>>

\* C11: extract_context(results) returns the empty string when results is
\* None, empty, has no "documents" entry, or its first document list is
\* missing or empty; otherwise it returns the strings of
\* results["documents"][0] joined by line breaks in their order, whatever
\* the later document lists hold.
C11_ExtractContext ==
    extractOut.outcome = "ok" =>
        IF NoFirstDocuments(extractIn)
        THEN extractOut.text = <<>>
        ELSE IsJoin(extractOut.text, extractIn.documents.items[1].items)

\* Two strings in the first list, another string in a second list: the
\* first list alone is returned
C11_Witness ==
    /\ extractOut.outcome = "ok"
    /\ ~extractIn.none
    /\ Len(extractIn.documents.items) = 2
    /\ extractIn.documents.items[1] = ListOf(<<<<"a">>, <<"b">>>>)
    /\ extractIn.documents.items[2] = ListOf(<<<<"b">>>>)
    /\ extractOut.text = <<"a", "\n", "b">>

\* C12: read_pdf returns the pages' text-layer text joined by line breaks,
\* without any OCR, whenever at least one page has non-empty extracted
\* text; only when every page's extracted text is empty does it run OCR,
\* and it then returns the OCR text of the page images joined by line
\* breaks in page order.
C12_ReadPdf ==
    pdfOut.outcome = "ok" =>
        IF \E i \in 1..Len(pdfIn.pages) : Len(pdfIn.pages[i]) > 0
        THEN ~pdfOut.ocr /\ IsJoin(pdfOut.text, pdfIn.pages)
        ELSE pdfOut.ocr /\ IsJoin(pdfOut.text, pdfIn.ocr)

\* A PDF with one empty page and one page with text: the text layer is
\* returned, the OCR text is not used
C12_Witness ==
    /\ pdfOut.outcome = "ok"
    /\ pdfIn.pages = <<<<>>, <<"a">>>>
    /\ pdfIn.ocr = <<<<"o1">>, <<"o2">>>>
    /\ ~pdfOut.ocr
    /\ pdfOut.text = <<"\n", "a">>

----------------------------------------------------------------------------
(* Properties of the API process (SpecApi)                                 *)

\* The step is a POST /api/query request
IsQuery == served' = served + 1

\* The key of the request just handled
RequestKey == QueryKey(apiCall'.commune, apiCall'.question)

\* The Redis entries after the step are those before it, with each of the
\* named counters one higher
CountersUp(names) ==
    \A k \in RedisKeys :
        IF \E n \in names : k = StatKey(n)
        THEN redis'[k].count = redis[k].count + 1
        ELSE redis'[k] = redis[k]

\* What a cache hit answers: the stored entry, marked cached, and nothing
\* but the two counters touched
HitAnswer ==
    /\ apiCall'.hit
    /\ apiCall'.status = 200
    /\ apiCall'.cached
    /\ PyStr(apiCall'.answer)
          = DictGet(Loads(redis[RequestKey].data), <<"answer">>, PyNone)
    /\ apiCall'.sources
          = DictGet(Loads(redis[RequestKey].data), <<"sources">>, PyNone)
    /\ apiCall'.calls = {"cache_get"}
    /\ CountersUp({"total_queries", "cache_hits"})
    /\ UNCHANGED <<ragVars, llmVars>>

\* C13 as stated: with use_cache true, the cache enabled and an entry held
\* under the request's key, query_urbanisme returns that entry with
\* cached = True and increments cache_hits, without RAG search, mock API,
\* LLM or cache write, whatever the readiness of rag, llm and the model.
C13_CacheHitShortCircuit ==
    [][(/\ IsQuery
        /\ apiCall'.use_cache
        /\ cache # None /\ enabled
        /\ Live(RequestKey))
       => HitAnswer]_vars

\* C13 for a Redis server that answers the request: the same.
C13_HitWhileAnswering ==
    [][(/\ IsQuery
        /\ apiCall'.use_cache
        /\ cache # None /\ enabled /\ redisUp
        /\ Live(RequestKey))
       => HitAnswer]_vars

\* C13 witness: a cached answer returned while the LLM is not initialized
\* and no model is loaded
C13_Witness ==
    /\ apiCall.op = "query"
    /\ apiCall.hit /\ apiCall.cached
    /\ apiCall.answer = <<"r">>
    /\ ~initialization_status.llm /\ ~model
    /\ redis[StatKey("cache_hits")].count = 1
    /\ apiCall.calls = {"cache_get"}

\* The step leaves every Redis entry but the total_queries counter alone,
\* and counts the request there when the cache answers
OnlyTotalQueries ==
    /\ \A k \in RedisKeys \ {StatKey("total_queries")} : redis'[k] = redis[k]
    /\ redis'[StatKey("total_queries")].count
          = redis[StatKey("total_queries")].count
            + (IF cache # None /\ enabled /\ redisUp THEN 1 ELSE 0)

\* C14: when rag and llm are both marked initialized, there is no cache
\* hit and llm_manager.model is not loaded, query_urbanisme answers HTTP
\* 503 and performs no RAG search, no LLM call, no cache write and no
\* increment of rag_searches or llm_calls: only total_queries is counted.
C14_NotLoaded503 ==
    [][(/\ IsQuery
        /\ initialization_status.rag /\ initialization_status.llm
        /\ ~model
        /\ ~apiCall'.hit)
       => /\ apiCall'.status = 503
          /\ apiCall'.calls \subseteq {"cache_get"}
          /\ apiCall'.answer = <<>>
          /\ OnlyTotalQueries
          /\ UNCHANGED <<ragVars, llmVars>>]_vars

\* C14 witness: a request answered 503 after a cache lookup without a
\* hit, counted in total_queries only
C14_Witness ==
    /\ apiCall.op = "query"
    /\ apiCall.status = 503
    /\ apiCall.calls = {"cache_get"}
    /\ initialization_status.rag /\ initialization_status.llm /\ ~model
    /\ redis[StatKey("total_queries")].count = 1
    /\ redis[StatKey("rag_searches")].count = 0
    /\ redis[StatKey("llm_calls")].count = 0

\* The five readiness flags
Flags == {"cache", "mock_api", "llm", "rag", "documents_indexed"}

\* C16: GET /health reports "healthy" exactly when all five initialization
\* flags are True and "degraded" otherwise; a flag that is True stays
\* True; documents_indexed becomes True only in the startup index_documents
\* task, when its index_documents call has returned without raising.
C16_Health ==
    [][/\ (apiCall'.op = "health" /\ apiCall' # apiCall)
             => /\ DOMAIN initialization_status = Flags
                /\ apiCall'.health \in {<<"healthy">>, <<"degraded">>}
                /\ apiCall'.health = <<"healthy">>
                      <=> \A f \in Flags : initialization_status[f]
       /\ \A f \in Flags : initialization_status[f] => initialization_status'[f]
       /\ (~initialization_status.documents_indexed
           /\ initialization_status'.documents_indexed)
             => /\ "index_documents" \in pending \ pending'
                /\ ragCall'.op = "index_documents"
                /\ ragCall'.outcome = "ok"]_vars

\* C16 witness: /health answered "healthy" with the five flags set
C16_Witness ==
    /\ apiCall.op = "health"
    /\ apiCall.health = <<"healthy">>
    /\ \A f \in Flags : initialization_status[f]
    /\ pending = {}

----------------------------------------------------------------------------
(* Properties of the refresh route (SpecRefresh)                           *)

\* The files of the walked sub-directories that load_document supports
SupportedFiles == {p \in WalkedFiles : Suffix(p) \in SupportedSuffixes}

\* A step that runs the background task queued by refresh_index
RefreshRuns == "refresh_index" \in pending /\ "refresh_index" \notin pending'

\* C21: the index_documents(force_reindex=True) call launched by POST
\* /api/index/refresh passes every supported file under plu/, zonage/ and
\* reglements/ to load_document and passes the chunks of all of them to
\* add_documents, whether or not the file's fingerprint was in
\* indexed_files; when the call returns the chunks are in the vector
\* store, and indexed_files holds the current fingerprint of every file
\* that yielded chunks.
C21_ForceReindex ==
    [][RefreshRuns
       => /\ ragCall'.op = "index_documents"
          /\ ragCall'.force
          /\ ragCall'.outcome \in {"ok", "error"}
          /\ SupportedFiles \subseteq ragCall'.loaded
          /\ ragCall'.added =
                UNION {load_document(p, fs[p]) : p \in SupportedFiles}
          /\ ragCall'.outcome = "ok" => ragCall'.added \subseteq chroma'
          /\ \A p \in SupportedFiles :
                load_document(p, fs[p]) # {}
                   => FileHash(p, fs[p]) \in indexed_files']_vars

\* C21 witness: the refresh task has run and returned; it loaded a file
\* whose fingerprint was already in indexed_files together with a file
\* that was new, and the chunks of both were added
C21_Witness ==
    /\ ragCall.op = "index_documents"
    /\ ragCall.force
    /\ ragCall.outcome = "ok"
    /\ apiCall.op = "refresh_index"
    /\ apiCall.status = 200
    /\ "refresh_index" \notin pending
    /\ PathTxt \in ragCall.known
    /\ PathMd \in ragCall.loaded \ ragCall.known
    /\ \A p \in {PathTxt, PathMd} :
          /\ \E d \in ragCall.added : d.source = p
          /\ FileHash(p, fs[p]) \in indexed_files
    /\ ragCall.added \subseteq chroma

====
